---- MODULE Spec2Model ----
(***************************************************************************)
(* Load-balancer driver adapters of neutron.                              *)
(*                                                                         *)
(*   EdgeLbDriver            plugins/nicira/vshield/edge_loadbalancer_    *)
(*                           driver.py: vips, pools and health monitors   *)
(*                           on a vShield edge, with the logical-id to    *)
(*                           backend-id bindings kept by vcns_db.         *)
(*   NetScalerPluginDriver   services/loadbalancer/drivers/netscaler/     *)
(*                           plugin_driver.py: pools dispatched to an     *)
(*                           agent, with one SNAT port per (tenant,       *)
(*                           subnet).                                     *)
(*                                                                         *)
(* Every driver method is cut at its collaborator calls (backend call,    *)
(* binding store call, core-plugin call, RPC cast): one action per cut.   *)
(* In the sequential specifications a method runs to its end before the   *)
(* next one starts: pc is "idle" between methods, "done" when a method    *)
(* has returned or raised and its caller has not yet taken the result.    *)
(* Every collaborator call a method makes is appended to its call log.    *)
(***************************************************************************)
EXTENDS Integers, Sequences, FiniteSets, TLC

\* ------------------------------------------------------------------ bounds

\* Backend object ids the edge hands out before it rejects further creates.
MaxVseIds == 4

\* ----------------------------------------------------------- edge: values

Edges == {"edge-1", "edge-2"}
VipIds == {"vip-1"}
PoolIds == {"pool-1"}
MonitorIds == {"hm-1"}

\* The unset identifier (Python None / not yet extracted).
NoId == <<>>

\* lb_constants.LB_METHOD_* -> vse algorithm
BALANCE_MAP ==
  [m \in {"ROUND_ROBIN", "LEAST_CONNECTIONS", "SOURCE_IP"} |->
     CASE m = "ROUND_ROBIN" -> "round-robin"
       [] m = "LEAST_CONNECTIONS" -> "leastconn"
       [] m = "SOURCE_IP" -> "source"]

\* lb_constants.PROTOCOL_* -> vse monitor type
PROTOCOL_MAP ==
  [p \in {"TCP", "HTTP", "HTTPS"} |->
     CASE p = "TCP" -> "tcp"
       [] p = "HTTP" -> "http"
       [] p = "HTTPS" -> "tcp"]

\* Python None.
None == "None"

\* dict.get(key, default)
DictGet(d, key, default) == IF key \in DOMAIN d THEN d[key] ELSE default

\* The vips, pools and monitors the service hands to the driver.
Vips ==
  [id : VipIds, name : {"web"}, address : {"10.0.0.5"}, protocol : {"HTTP"},
   protocol_port : {80}, pool_id : PoolIds, session_persistence : {"NONE"}]

Pools ==
  [id : PoolIds, name : {"pool"}, lb_method : {"ROUND_ROBIN"},
   health_monitors : {<<>>, <<"hm-1">>}]

Members == {<<[address |-> "10.0.0.9", protocol_port |-> 8080]>>}

Monitors ==
  [id : MonitorIds, type : {"HTTP"}, delay : {5}, timeout : {3},
   max_retries : {2}]

\* The two failures of a backend call (both are VcnsApiException).
VcnsErrors == {"BackendUnavailable", "BackendRejected"}

VARIABLES
  vse,        \* the objects on the edges: [edge_id, kind, vseid]
  nextVseId,  \* how many ids the backend has handed out
  bindings,   \* vcns_db: rows [kind, id, edge_id, vseid, app_profileid]
  pc,         \* "idle" between methods, a step of the running one, or "done"
  cur,        \* the running (or last) method: its name, arguments and locals
  calls,      \* the collaborator calls of the running (or last) method
  result      \* "none" while running, then "ok" or the error raised

edgeVars == <<vse, nextVseId, bindings, pc, cur, calls, result>>

VARIABLES
  nsPools,     \* the pool records of the service's database
  poolAgents,  \* the agent (host) each scheduled pool is bound to
  ports,       \* the ports of the core plugin
  nextPortId,  \* how many ports the core plugin has created
  nsObjs,      \* the vip, member and monitor records of the service
  npc,         \* per worker: "idle", a step of its running method, or "done"
  ncur,        \* per worker: the running (or last) method and its locals
  ncalls,      \* per worker: the collaborator calls of that method
  nresult      \* per worker: "none" while running, then "ok" or the error

nsVars ==
  <<nsPools, poolAgents, ports, nextPortId, nsObjs, npc, ncur, ncalls,
    nresult>>

VARIABLES
  is_proxy,  \* RESTClient.is_proxy
  rpc,       \* "idle" between REST operations, "done" when one has ended
  rcur,      \* the last REST operation: its name, argument and response
  rresult    \* how it ended: the return value or the exception raised

restVars == <<is_proxy, rpc, rcur, rresult>>

vars == <<edgeVars, nsVars, restVars>>

\* --------------------------------------------------- edge: backend (vcns)

Digits == <<"0", "1", "2", "3", "4", "5", "6", "7", "8", "9">>

\* The id the backend gives its n-th object, as a string of characters.
VseIdStr(n) == <<"o", "b", "j", "-", Digits[n + 1]>>

\* The Location header of a create response: .../<kind>/<id>
Location(edge_id, kind, n) ==
  <<"/", "a", "p", "i", "/", "4", ".", "0", "/">> \o <<edge_id>> \o <<"/">>
    \o <<kind>> \o <<"/">> \o VseIdStr(n)

\* str.rfind(ch): the 0-based index of the last ch in s, -1 when there is none.
RFind(s, ch) ==
  LET hits == {i \in 1..Len(s) : s[i] = ch}
  IN  IF hits = {} THEN -1
      ELSE (CHOOSE i \in hits : \A j \in hits : j <= i) - 1

\* Mutant: the id is what follows the first '/'.
ObjUriId_first_slash(objuri) ==
  LET hits == {i \in 1..Len(objuri) : objuri[i] = "/"}
  IN  IF hits = {} THEN objuri
      ELSE SubSeq(objuri, (CHOOSE i \in hits : \A j \in hits : i <= j) + 1,
                  Len(objuri))

\* objuri[objuri.rfind("/") + 1:]
ObjUriId(objuri) == SubSeq(objuri, RFind(objuri, "/") + 2, Len(objuri))

\* What a backend create call can answer: it rejects once it is out of ids.
VcnsCreateOutcomes ==
  IF nextVseId < MaxVseIds THEN {"ok"} \cup VcnsErrors ELSE VcnsErrors

\* What a backend get, update or delete of an object can answer: an object
\* that is not there is rejected.
VcnsObjectOutcomes(edge_id, kind, vseid) ==
  IF [edge_id |-> edge_id, kind |-> kind, vseid |-> vseid] \in vse
    THEN {"ok"} \cup VcnsErrors
    ELSE VcnsErrors

\* The edge after a create call answered out.
VcnsCreated(edge_id, kind, out) ==
  IF out = "ok"
    THEN vse \cup {[edge_id |-> edge_id, kind |-> kind,
                    vseid |-> VseIdStr(nextVseId)]}
    ELSE vse

\* The edge after a delete call answered out.
VcnsDeleted(edge_id, kind, vseid, out) ==
  IF out = "ok"
    THEN vse \ {[edge_id |-> edge_id, kind |-> kind, vseid |-> vseid]}
    ELSE vse

\* ------------------------------------------- edge: binding store (vcns_db)

BindingRow(kind, id, edge_id, vseid, app_profileid) ==
  [kind |-> kind, id |-> id, edge_id |-> edge_id, vseid |-> vseid,
   app_profileid |-> app_profileid]

\* Mutant: a row is added whatever rows the table holds.
AddBinding_appended(rows, row) == rows \cup {row}

\* add_vcns_edge_*_binding: one row per (kind, logical id, edge).
AddBinding(rows, row) ==
  {r \in rows : ~(r.kind = row.kind /\ r.id = row.id
                    /\ r.edge_id = row.edge_id)} \cup {row}

\* get_vcns_edge_pool_binding / get_vcns_edge_monitor_binding(id, edge_id)
GetBinding(rows, kind, id, edge_id) ==
  {r \in rows : r.kind = kind /\ r.id = id /\ r.edge_id = edge_id}

\* get_vcns_edge_vip_binding(id): the vip's rows, whatever the edge.
GetVipBinding(rows, id) == {r \in rows : r.kind = "vip" /\ r.id = id}

\* delete_vcns_edge_pool_binding / delete_vcns_edge_monitor_binding
DeleteBinding(rows, kind, id, edge_id) ==
  rows \ GetBinding(rows, kind, id, edge_id)

\* delete_vcns_edge_vip_binding(id)
DeleteVipBinding(rows, id) == rows \ GetVipBinding(rows, id)

\* get_vcns_edge_pool_binding_by_vseid(edge_id, vseid)
GetBindingByVseid(rows, kind, edge_id, vseid) ==
  {r \in rows : r.kind = kind /\ r.edge_id = edge_id /\ r.vseid = vseid}

\* ------------------------------------------------------ edge: translator

\* _convert_app_profile: persistence and template are fixed.
ConvertAppProfile(name, session_persistence) ==
  [insertXForwardedFor |-> FALSE, name |-> name,
   persistence |-> [method |-> "sourceip"], serverSslEnabled |-> FALSE,
   sslPassthrough |-> FALSE, template |-> "HTTP"]

\* Mutant: the payload carries no application profile.
ConvertLbVip_no_profile(vip, poolid_map, app_profileid) ==
  [name |-> vip.name, ipAddress |-> vip.address, protocol |-> vip.protocol,
   port |-> vip.protocol_port, defaultPoolId |-> poolid_map.vseid,
   applicationProfileId |-> NoId]

\* Mutant: the payload names the application profile as its pool.
ConvertLbVip_profile_as_pool(vip, poolid_map, app_profileid) ==
  [name |-> vip.name, ipAddress |-> vip.address, protocol |-> vip.protocol,
   port |-> vip.protocol_port, defaultPoolId |-> app_profileid,
   applicationProfileId |-> app_profileid]

\* _convert_lb_vip, given the pool's binding row.
ConvertLbVip(vip, poolid_map, app_profileid) ==
  [name |-> DictGet(vip, "name", None),
   ipAddress |-> DictGet(vip, "address", None),
   protocol |-> DictGet(vip, "protocol", None),
   port |-> DictGet(vip, "protocol_port", None),
   defaultPoolId |-> poolid_map.vseid,
   applicationProfileId |-> app_profileid]

\* Mutant: the restored vip takes its address from the payload's name.
RestoreLbVip_name_as_address(vip_vse, pool_binding) ==
  [name |-> vip_vse.name, address |-> vip_vse.name,
   protocol |-> vip_vse.protocol, protocol_port |-> vip_vse.port,
   pool_id |-> pool_binding.id]

\* _restore_lb_vip, given the binding row found by the backend pool id.
RestoreLbVip(vip_vse, pool_binding) ==
  [name |-> vip_vse.name, address |-> vip_vse.ipAddress,
   protocol |-> vip_vse.protocol, protocol_port |-> vip_vse.port,
   pool_id |-> pool_binding.id]

\* The members of a pool as {ipAddress, port} pairs, in order.
ConvertMembers(members) ==
  [i \in 1..Len(members) |->
     [ipAddress |-> members[i].address, port |-> members[i].protocol_port]]

\* monitors = pool.get('health_monitors'); "if not monitors" holds for a
\* missing and for an empty list alike.
PoolMonitors(pool) == DictGet(pool, "health_monitors", <<>>)

\* Mutant: every monitor of the pool is looked up and attached.
LookedUpMonitors_all(monitors) == monitors

\* The monitors _convert_lb_pool looks up: monitors[0] alone.
LookedUpMonitors(monitors) ==
  IF monitors = <<>> THEN <<>> ELSE <<monitors[1]>>

\* Whether _convert_lb_pool finds what it looks up.
ConvertLbPoolOk(edge_id, pool) ==
  LET looked == LookedUpMonitors(PoolMonitors(pool))
  IN  \A i \in 1..Len(looked) :
        GetBinding(bindings, "monitor", looked[i], edge_id) # {}

\* vsepool['monitorId']: the backend ids bound to the monitors looked up.
MonitorIdsOf(edge_id, monitors) ==
  LET looked == LookedUpMonitors(monitors)
  IN  [i \in 1..Len(looked) |->
         (CHOOSE monitorid_map \in
            GetBinding(bindings, "monitor", looked[i], edge_id) : TRUE).vseid]

\* Mutant: an lb_method the table does not have is passed on as it is.
Algorithm_passed_on(lb_method) == DictGet(BALANCE_MAP, lb_method, lb_method)

\* BALANCE_MAP.get(pool.get('lb_method'), 'round-robin')
Algorithm(lb_method) == DictGet(BALANCE_MAP, lb_method, "round-robin")

\* _convert_lb_pool: at most the first monitor is attached.
ConvertLbPool(edge_id, pool, members) ==
  [name |-> DictGet(pool, "name", None),
   algorithm |-> Algorithm(DictGet(pool, "lb_method", None)),
   member |-> ConvertMembers(members),
   monitorId |-> MonitorIdsOf(edge_id, PoolMonitors(pool))]

\* Mutant: a type the table does not have becomes 'tcp'.
MonitorType_tcp(type) == DictGet(PROTOCOL_MAP, type, "tcp")

\* PROTOCOL_MAP.get(monitor.get('type'), 'http')
MonitorType(type) == DictGet(PROTOCOL_MAP, type, "http")

\* _convert_lb_monitor
ConvertLbMonitor(monitor) ==
  [type |-> MonitorType(DictGet(monitor, "type", None)),
   interval |-> DictGet(monitor, "delay", None),
   timeout |-> DictGet(monitor, "timeout", None),
   maxRetries |-> DictGet(monitor, "max_retries", None),
   name |-> DictGet(monitor, "id", None)]

\* ------------------------------------------------- edge: method bookkeeping

NoBody == [none |-> TRUE]

\* One collaborator call of a method, as the call log keeps it.
Call(name, edge_id, vseid, body, out) ==
  [call |-> name, edge_id |-> edge_id, vseid |-> vseid, body |-> body,
   out |-> out]

\* The method that runs: its name, its arguments, and the locals it carries
\* from one call to the next.
Method(op, edge_id, obj, vseid, app_profileid) ==
  [op |-> op, edge_id |-> edge_id, obj |-> obj, vseid |-> vseid,
   app_profileid |-> app_profileid]

\* Mutant: the caught error is replaced by a generic wrapper.
SaveAndReraise_wrapped(err) == "VcnsGeneralException"

\* excutils.save_and_reraise_exception: the caught error is raised again.
SaveAndReraise(err) == err

\* Subscripting the None a missed pool or monitor lookup returns.
NoneSubscript_ignored == "ok"
NoneSubscript == "TypeError"

\* Mutant: the error of a backend call is logged and swallowed.
AfterCall_swallowed(out, next) == next

\* Where a method goes after a backend call: on, or out with the error.
AfterCall(out, next) == IF out = "ok" THEN next ELSE "done"

\* Mutant: a failed backend call is reported as the base exception, whatever
\* its kind.
Raised_base_class(out) == IF out = "ok" THEN "none" ELSE "VcnsApiException"

\* What a method has raised or returned after a backend call that ends it on
\* failure.
Raised(out) == IF out = "ok" THEN "none" ELSE SaveAndReraise(out)

\* The new backend id of a create call answered out.
CreatedId(edge_id, kind, out) ==
  IF out = "ok" THEN ObjUriId(Location(edge_id, kind, nextVseId)) ELSE NoId

\* ------------------------------------------------------ edge: create_vip

\* Mutant: a failed create_vip call is followed by the deletion of the app
\* profile created for it.
VseAfterFailedCreateVip_rolled_back(edge_id, app_profileid) ==
  vse \ {[edge_id |-> edge_id, kind |-> "app_profile",
          vseid |-> app_profileid]}

\* The edge after create_vip's handler of a failed create_vip call: the
\* handler logs and raises again, the app profile stays.
VseAfterFailedCreateVip(edge_id, app_profileid) == vse

\* create_vip up to its first backend call, create_app_profile.
Edge_create_vip(edge_id, vip) ==
  /\ pc = "idle"
  /\ \E out \in VcnsCreateOutcomes :
       /\ vse' = VcnsCreated(edge_id, "app_profile", out)
       /\ nextVseId' = IF out = "ok" THEN nextVseId + 1 ELSE nextVseId
       /\ calls' = <<Call("create_app_profile", edge_id,
                          CreatedId(edge_id, "app_profile", out),
                          ConvertAppProfile(vip.name, vip.session_persistence),
                          out)>>
       /\ cur' = Method("create_vip", edge_id, vip, NoId,
                        CreatedId(edge_id, "app_profile", out))
       /\ pc' = AfterCall(out, "create_vip_vip")
       /\ result' = Raised(out)
  /\ UNCHANGED bindings
  /\ UNCHANGED <<nsVars, restVars>>

\* create_vip from _convert_lb_vip to its second backend call, create_vip.
Edge_create_vip_vip ==
  /\ pc = "create_vip_vip"
  /\ LET poolid_maps ==
           GetBinding(bindings, "pool", cur.obj.pool_id, cur.edge_id)
         lookup == Call("get_vcns_edge_pool_binding", cur.edge_id, NoId,
                        NoBody, IF poolid_maps = {} THEN "None" ELSE "ok")
     IN  IF poolid_maps = {}
           THEN /\ calls' = calls \o <<lookup>>
                /\ pc' = "done"
                /\ result' = NoneSubscript
                /\ UNCHANGED <<vse, nextVseId, cur>>
           ELSE \E out \in VcnsCreateOutcomes :
                  LET poolid_map == CHOOSE r \in poolid_maps : TRUE
                      vip_new == ConvertLbVip(cur.obj, poolid_map,
                                              cur.app_profileid)
                  IN  /\ vse' = IF out = "ok"
                                  THEN VcnsCreated(cur.edge_id, "vip", out)
                                  ELSE VseAfterFailedCreateVip(
                                         cur.edge_id, cur.app_profileid)
                      /\ nextVseId' =
                           IF out = "ok" THEN nextVseId + 1 ELSE nextVseId
                      /\ calls' = calls \o
                           <<lookup,
                             Call("create_vip", cur.edge_id,
                                  CreatedId(cur.edge_id, "vip", out),
                                  vip_new, out)>>
                      /\ cur' = [cur EXCEPT
                                   !.vseid = CreatedId(cur.edge_id, "vip", out)]
                      /\ pc' = AfterCall(out, "create_vip_bind")
                      /\ result' = Raised(out)
  /\ UNCHANGED bindings
  /\ UNCHANGED <<nsVars, restVars>>

\* create_vip's last step: add_vcns_edge_vip_binding.
Edge_create_vip_bind ==
  /\ pc = "create_vip_bind"
  /\ bindings' = AddBinding(bindings,
                            BindingRow("vip", cur.obj.id, cur.edge_id,
                                       cur.vseid, cur.app_profileid))
  /\ calls' = calls \o <<Call("add_vcns_edge_vip_binding", cur.edge_id,
                              cur.vseid, NoBody, "ok")>>
  /\ pc' = "done"
  /\ result' = "ok"
  /\ UNCHANGED <<vse, nextVseId, cur>>
  /\ UNCHANGED <<nsVars, restVars>>

\* ----------------------------------------- edge: get_vip, update_vip

\* A missed get_vcns_edge_vip_binding raises.
VipBindingNotFound == "NotFound"

\* The lookup of a binding, as the call log keeps it.
Lookup(name, edge_id, found) ==
  Call(name, edge_id, NoId, NoBody, IF found = {} THEN "None" ELSE "ok")

\* get_vip: binding lookup, then the backend get_vip.
Edge_get_vip(id) ==
  /\ pc = "idle"
  /\ LET rows == GetVipBinding(bindings, id)
     IN  IF rows = {}
           THEN /\ calls' = <<Lookup("get_vcns_edge_vip_binding", None, rows)>>
                /\ cur' = Method("get_vip", None, [id |-> id], NoId, NoId)
                /\ result' = VipBindingNotFound
           ELSE \E vip_binding \in rows :
                \E out \in VcnsObjectOutcomes(vip_binding.edge_id, "vip",
                                              vip_binding.vseid) :
                  /\ calls' =
                       <<Lookup("get_vcns_edge_vip_binding",
                                vip_binding.edge_id, rows),
                         Call("get_vip", vip_binding.edge_id,
                              vip_binding.vseid, NoBody, out)>>
                  /\ cur' = Method("get_vip", vip_binding.edge_id,
                                   [id |-> id], vip_binding.vseid,
                                   vip_binding.app_profileid)
                  /\ result' = IF out = "ok" THEN "ok" ELSE SaveAndReraise(out)
  /\ pc' = "done"
  /\ UNCHANGED <<vse, nextVseId, bindings>>
  /\ UNCHANGED <<nsVars, restVars>>

\* update_vip: binding lookup, _convert_lb_vip, then the backend update_vip.
Edge_update_vip(vip) ==
  /\ pc = "idle"
  /\ LET rows == GetVipBinding(bindings, vip.id)
     IN  IF rows = {}
           THEN /\ calls' = <<Lookup("get_vcns_edge_vip_binding", None, rows)>>
                /\ cur' = Method("update_vip", None, vip, NoId, NoId)
                /\ result' = VipBindingNotFound
           ELSE \E vip_binding \in rows :
                  LET edge_id == vip_binding.edge_id
                      poolid_maps ==
                        GetBinding(bindings, "pool", vip.pool_id, edge_id)
                      lookups ==
                        <<Lookup("get_vcns_edge_vip_binding", edge_id, rows),
                          Lookup("get_vcns_edge_pool_binding", edge_id,
                                 poolid_maps)>>
                  IN  /\ cur' = Method("update_vip", edge_id, vip,
                                       vip_binding.vseid,
                                       vip_binding.app_profileid)
                      /\ IF poolid_maps = {}
                           THEN /\ calls' = lookups
                                /\ result' = NoneSubscript
                           ELSE \E out \in VcnsObjectOutcomes(
                                             edge_id, "vip", vip_binding.vseid) :
                                  /\ calls' = lookups \o
                                       <<Call("update_vip", edge_id,
                                              vip_binding.vseid,
                                              ConvertLbVip(
                                                vip,
                                                CHOOSE r \in poolid_maps : TRUE,
                                                vip_binding.app_profileid),
                                              out)>>
                                  /\ result' = IF out = "ok" THEN "ok"
                                               ELSE SaveAndReraise(out)
  /\ pc' = "done"
  /\ UNCHANGED <<vse, nextVseId, bindings>>
  /\ UNCHANGED <<nsVars, restVars>>

\* ------------------------------------------------------ edge: delete_vip

\* delete_vip up to its first backend call, delete_vip.
Edge_delete_vip(id) ==
  /\ pc = "idle"
  /\ LET rows == GetVipBinding(bindings, id)
     IN  IF rows = {}
           THEN /\ calls' = <<Lookup("get_vcns_edge_vip_binding", None, rows)>>
                /\ cur' = Method("delete_vip", None, [id |-> id], NoId, NoId)
                /\ pc' = "done"
                /\ result' = VipBindingNotFound
                /\ UNCHANGED vse
           ELSE \E vip_binding \in rows :
                \E out \in VcnsObjectOutcomes(vip_binding.edge_id, "vip",
                                              vip_binding.vseid) :
                  /\ vse' = VcnsDeleted(vip_binding.edge_id, "vip",
                                        vip_binding.vseid, out)
                  /\ calls' =
                       <<Lookup("get_vcns_edge_vip_binding",
                                vip_binding.edge_id, rows),
                         Call("delete_vip", vip_binding.edge_id,
                              vip_binding.vseid, NoBody, out)>>
                  /\ cur' = Method("delete_vip", vip_binding.edge_id,
                                   [id |-> id], vip_binding.vseid,
                                   vip_binding.app_profileid)
                  /\ pc' = AfterCall(out, "delete_vip_profile")
                  /\ result' = Raised(out)
  /\ UNCHANGED <<nextVseId, bindings>>
  /\ UNCHANGED <<nsVars, restVars>>

\* Mutant: the binding is removed before the app profile's deletion is
\* known to have succeeded.
Edge_delete_vip_profile_unbound_first ==
  /\ pc = "delete_vip_profile"
  /\ \E out \in VcnsObjectOutcomes(cur.edge_id, "app_profile",
                                   cur.app_profileid) :
       /\ vse' = VcnsDeleted(cur.edge_id, "app_profile", cur.app_profileid, out)
       /\ calls' = calls \o <<Call("delete_app_profile", cur.edge_id,
                                   cur.app_profileid, NoBody, out)>>
       /\ pc' = "done"
       /\ result' = IF out = "ok" THEN "ok" ELSE SaveAndReraise(out)
  /\ bindings' = DeleteVipBinding(bindings, cur.obj.id)
  /\ UNCHANGED <<nextVseId, cur>>
  /\ UNCHANGED <<nsVars, restVars>>

\* delete_vip's second backend call, delete_app_profile.
Edge_delete_vip_profile ==
  /\ pc = "delete_vip_profile"
  /\ \E out \in VcnsObjectOutcomes(cur.edge_id, "app_profile",
                                   cur.app_profileid) :
       /\ vse' = VcnsDeleted(cur.edge_id, "app_profile", cur.app_profileid, out)
       /\ calls' = calls \o <<Call("delete_app_profile", cur.edge_id,
                                   cur.app_profileid, NoBody, out)>>
       /\ pc' = AfterCall(out, "delete_vip_unbind")
       /\ result' = Raised(out)
  /\ UNCHANGED <<nextVseId, bindings, cur>>
  /\ UNCHANGED <<nsVars, restVars>>

\* delete_vip's last step: delete_vcns_edge_vip_binding.
Edge_delete_vip_unbind ==
  /\ pc = "delete_vip_unbind"
  /\ bindings' = DeleteVipBinding(bindings, cur.obj.id)
  /\ calls' = calls \o <<Call("delete_vcns_edge_vip_binding", cur.edge_id,
                              cur.vseid, NoBody, "ok")>>
  /\ pc' = "done"
  /\ result' = "ok"
  /\ UNCHANGED <<vse, nextVseId, cur>>
  /\ UNCHANGED <<nsVars, restVars>>

\* ------------------------------------- edge: pools and health monitors

\* Mutant: get_pool and get_health_monitor go on to subscript the None a
\* missed lookup returns.
VcnsNotFound_unchecked == NoneSubscript

\* A missed binding in get_pool / get_health_monitor raises VcnsNotFound.
VcnsNotFound == "NotFound"

\* The first part of create_pool and create_health_monitor: the conversion
\* (whose lookups are given, with whether they all hit), then the backend
\* create call.
EdgeCreateCall(op, kind, call, edge_id, obj, lookups, converted, body, next) ==
  /\ pc = "idle"
  /\ IF ~converted
       THEN /\ calls' = lookups
            /\ cur' = Method(op, edge_id, obj, NoId, NoId)
            /\ pc' = "done"
            /\ result' = NoneSubscript
            /\ UNCHANGED <<vse, nextVseId>>
       ELSE \E out \in VcnsCreateOutcomes :
              /\ vse' = VcnsCreated(edge_id, kind, out)
              /\ nextVseId' = IF out = "ok" THEN nextVseId + 1 ELSE nextVseId
              /\ calls' = lookups \o
                   <<Call(call, edge_id, CreatedId(edge_id, kind, out),
                          body, out)>>
              /\ cur' = Method(op, edge_id, obj,
                               CreatedId(edge_id, kind, out), NoId)
              /\ pc' = AfterCall(out, next)
              /\ result' = Raised(out)
  /\ UNCHANGED bindings
  /\ UNCHANGED <<nsVars, restVars>>

\* The last step of create_pool and create_health_monitor: the binding.
EdgeCreateBind(at, kind, call) ==
  /\ pc = at
  /\ bindings' = AddBinding(bindings,
                            BindingRow(kind, cur.obj.id, cur.edge_id,
                                       cur.vseid, NoId))
  /\ calls' = calls \o <<Call(call, cur.edge_id, cur.vseid, NoBody, "ok")>>
  /\ pc' = "done"
  /\ result' = "ok"
  /\ UNCHANGED <<vse, nextVseId, cur>>
  /\ UNCHANGED <<nsVars, restVars>>

\* The lookups _convert_lb_pool makes.
ConvertLbPoolLookups(edge_id, pool) ==
  LET looked == LookedUpMonitors(PoolMonitors(pool))
  IN  [i \in 1..Len(looked) |->
         Lookup("get_vcns_edge_monitor_binding", edge_id,
                GetBinding(bindings, "monitor", looked[i], edge_id))]

\* The payload of a pool, when its conversion finds what it looks up.
PoolBody(edge_id, pool, members) ==
  IF ConvertLbPoolOk(edge_id, pool)
    THEN ConvertLbPool(edge_id, pool, members)
    ELSE NoBody

Edge_create_pool(edge_id, pool, members) ==
  EdgeCreateCall("create_pool", "pool", "create_pool", edge_id, pool,
                 ConvertLbPoolLookups(edge_id, pool),
                 ConvertLbPoolOk(edge_id, pool),
                 PoolBody(edge_id, pool, members), "create_pool_bind")

Edge_create_pool_bind ==
  EdgeCreateBind("create_pool_bind", "pool", "add_vcns_edge_pool_binding")

Edge_create_health_monitor(edge_id, health_monitor) ==
  EdgeCreateCall("create_health_monitor", "monitor", "create_health_monitor",
                 edge_id, health_monitor, <<>>, TRUE,
                 ConvertLbMonitor(health_monitor),
                 "create_health_monitor_bind")

Edge_create_health_monitor_bind ==
  EdgeCreateBind("create_health_monitor_bind", "monitor",
                 "add_vcns_edge_monitor_binding")

\* get_pool and get_health_monitor: binding lookup (a miss raises
\* VcnsNotFound), then the backend get.
EdgeGet(op, kind, lookup, call, id, edge_id) ==
  /\ pc = "idle"
  /\ LET rows == GetBinding(bindings, kind, id, edge_id)
     IN  IF rows = {}
           THEN /\ calls' = <<Lookup(lookup, edge_id, rows)>>
                /\ cur' = Method(op, edge_id, [id |-> id], NoId, NoId)
                /\ result' = VcnsNotFound
           ELSE LET binding == CHOOSE r \in rows : TRUE
                IN  \E out \in VcnsObjectOutcomes(edge_id, kind,
                                                  binding.vseid) :
                      /\ calls' = <<Lookup(lookup, edge_id, rows),
                                    Call(call, edge_id, binding.vseid,
                                         NoBody, out)>>
                      /\ cur' = Method(op, edge_id, [id |-> id],
                                       binding.vseid, NoId)
                      /\ result' = IF out = "ok" THEN "ok"
                                   ELSE SaveAndReraise(out)
  /\ pc' = "done"
  /\ UNCHANGED <<vse, nextVseId, bindings>>
  /\ UNCHANGED <<nsVars, restVars>>

Edge_get_pool(id, edge_id) ==
  EdgeGet("get_pool", "pool", "get_vcns_edge_pool_binding", "get_pool",
          id, edge_id)

Edge_get_health_monitor(id, edge_id) ==
  EdgeGet("get_health_monitor", "monitor", "get_vcns_edge_monitor_binding",
          "get_health_monitor", id, edge_id)

\* update_pool and update_health_monitor: binding lookup by the logical id
\* given (a miss is a subscripted None), the conversion, then the backend
\* update.
EdgeUpdate(op, kind, lookup, call, id, edge_id, obj, lookups, converted, body) ==
  /\ pc = "idle"
  /\ LET rows == GetBinding(bindings, kind, id, edge_id)
     IN  IF rows = {}
           THEN /\ calls' = <<Lookup(lookup, edge_id, rows)>>
                /\ cur' = Method(op, edge_id, obj, NoId, NoId)
                /\ result' = NoneSubscript
           ELSE LET binding == CHOOSE r \in rows : TRUE
                IN  /\ cur' = Method(op, edge_id, obj, binding.vseid, NoId)
                    /\ IF ~converted
                         THEN /\ calls' = <<Lookup(lookup, edge_id, rows)>>
                                            \o lookups
                              /\ result' = NoneSubscript
                         ELSE \E out \in VcnsObjectOutcomes(edge_id, kind,
                                                            binding.vseid) :
                                /\ calls' = <<Lookup(lookup, edge_id, rows)>>
                                     \o lookups
                                     \o <<Call(call, edge_id, binding.vseid,
                                               body, out)>>
                                /\ result' = IF out = "ok" THEN "ok"
                                             ELSE SaveAndReraise(out)
  /\ pc' = "done"
  /\ UNCHANGED <<vse, nextVseId, bindings>>
  /\ UNCHANGED <<nsVars, restVars>>

Edge_update_pool(edge_id, pool, members) ==
  EdgeUpdate("update_pool", "pool", "get_vcns_edge_pool_binding",
             "update_pool", pool.id, edge_id, pool,
             ConvertLbPoolLookups(edge_id, pool),
             ConvertLbPoolOk(edge_id, pool),
             PoolBody(edge_id, pool, members))

Edge_update_health_monitor(edge_id, old_health_monitor, health_monitor) ==
  EdgeUpdate("update_health_monitor", "monitor",
             "get_vcns_edge_monitor_binding", "update_health_monitor",
             old_health_monitor.id, edge_id, health_monitor, <<>>, TRUE,
             ConvertLbMonitor(health_monitor))

\* The first part of delete_pool and delete_health_monitor: binding lookup
\* (a miss is a subscripted None), then the backend delete call.
EdgeDeleteCall(op, kind, lookup, call, id, edge_id, next) ==
  /\ pc = "idle"
  /\ LET rows == GetBinding(bindings, kind, id, edge_id)
     IN  IF rows = {}
           THEN /\ calls' = <<Lookup(lookup, edge_id, rows)>>
                /\ cur' = Method(op, edge_id, [id |-> id], NoId, NoId)
                /\ pc' = "done"
                /\ result' = NoneSubscript
                /\ UNCHANGED vse
           ELSE LET binding == CHOOSE r \in rows : TRUE
                IN  \E out \in VcnsObjectOutcomes(edge_id, kind,
                                                  binding.vseid) :
                      /\ vse' = VcnsDeleted(edge_id, kind, binding.vseid, out)
                      /\ calls' = <<Lookup(lookup, edge_id, rows),
                                    Call(call, edge_id, binding.vseid,
                                         NoBody, out)>>
                      /\ cur' = Method(op, edge_id, [id |-> id],
                                       binding.vseid, NoId)
                      /\ pc' = AfterCall(out, next)
                      /\ result' = Raised(out)
  /\ UNCHANGED <<nextVseId, bindings>>
  /\ UNCHANGED <<nsVars, restVars>>

\* The last step of delete_pool and delete_health_monitor.
EdgeDeleteUnbind(at, kind, call) ==
  /\ pc = at
  /\ bindings' = DeleteBinding(bindings, kind, cur.obj.id, cur.edge_id)
  /\ calls' = calls \o <<Call(call, cur.edge_id, cur.vseid, NoBody, "ok")>>
  /\ pc' = "done"
  /\ result' = "ok"
  /\ UNCHANGED <<vse, nextVseId, cur>>
  /\ UNCHANGED <<nsVars, restVars>>

Edge_delete_pool(id, edge_id) ==
  EdgeDeleteCall("delete_pool", "pool", "get_vcns_edge_pool_binding",
                 "delete_pool", id, edge_id, "delete_pool_unbind")

Edge_delete_pool_unbind ==
  EdgeDeleteUnbind("delete_pool_unbind", "pool",
                   "delete_vcns_edge_pool_binding")

Edge_delete_health_monitor(id, edge_id) ==
  EdgeDeleteCall("delete_health_monitor", "monitor",
                 "get_vcns_edge_monitor_binding", "delete_health_monitor",
                 id, edge_id, "delete_health_monitor_unbind")

Edge_delete_health_monitor_unbind ==
  EdgeDeleteUnbind("delete_health_monitor_unbind", "monitor",
                   "delete_vcns_edge_monitor_binding")

\* ------------------------------------------------- edge: specification

NoMethod == Method("none", None, [id |-> "none"], NoId, NoId)

\* The method has returned or raised: the driver is ready for the next call.
Edge_return ==
  /\ pc = "done"
  /\ pc' = "idle"
  /\ cur' = NoMethod
  /\ calls' = <<>>
  /\ result' = "none"
  /\ UNCHANGED <<vse, nextVseId, bindings>>
  /\ UNCHANGED <<nsVars, restVars>>

\* The process dies inside a method and is started again: what the method
\* held is lost, the edge and the binding store keep what they have.
Edge_crash ==
  /\ pc \notin {"idle", "done"}
  /\ pc' = "idle"
  /\ cur' = NoMethod
  /\ calls' = <<>>
  /\ result' = "none"
  /\ UNCHANGED <<vse, nextVseId, bindings>>
  /\ UNCHANGED <<nsVars, restVars>>

EdgeInit ==
  /\ vse = {}
  /\ nextVseId = 0
  /\ bindings = {}
  /\ pc = "idle"
  /\ cur = NoMethod
  /\ calls = <<>>
  /\ result = "none"

EdgeNext ==
  \/ \E e \in Edges, v \in Vips : Edge_create_vip(e, v)
  \/ Edge_create_vip_vip
  \/ Edge_create_vip_bind
  \/ \E id \in VipIds : Edge_get_vip(id)
  \/ \E v \in Vips : Edge_update_vip(v)
  \/ \E id \in VipIds : Edge_delete_vip(id)
  \/ Edge_delete_vip_profile
  \/ Edge_delete_vip_unbind
  \/ \E e \in Edges, p \in Pools, ms \in Members : Edge_create_pool(e, p, ms)
  \/ Edge_create_pool_bind
  \/ \E id \in PoolIds, e \in Edges : Edge_get_pool(id, e)
  \/ \E e \in Edges, p \in Pools, ms \in Members : Edge_update_pool(e, p, ms)
  \/ \E id \in PoolIds, e \in Edges : Edge_delete_pool(id, e)
  \/ Edge_delete_pool_unbind
  \/ \E e \in Edges, m \in Monitors : Edge_create_health_monitor(e, m)
  \/ Edge_create_health_monitor_bind
  \/ \E id \in MonitorIds, e \in Edges : Edge_get_health_monitor(id, e)
  \/ \E e \in Edges, m1 \in Monitors, m2 \in Monitors :
       Edge_update_health_monitor(e, m1, m2)
  \/ \E id \in MonitorIds, e \in Edges : Edge_delete_health_monitor(id, e)
  \/ Edge_delete_health_monitor_unbind
  \/ Edge_return

\* ----------------------------------------------------------- agent driver

\* Ports the core plugin creates before a method that may create one is
\* no longer started.
MaxPortIds == 3

Procs == {"w1", "w2"}
Tenants == {"tenant-1", "tenant-2"}
Subnets == {"subnet-1", "subnet-2"}
NsPoolIds == {"pool-1", "pool-2"}
Hosts == {"host-1"}

\* The pools the service hands to the agent driver.
NsPools == [id : NsPoolIds, tenant_id : Tenants, subnet_id : Subnets]

\* core_plugin.get_subnet: both subnets belong to one network.
GetSubnet(subnet_id) == [id |-> subnet_id, network_id |-> "net-1"]

\* core_plugin.get_network: a provider network.
GetNetwork(network_id) ==
  [id |-> network_id, provider_network_type |-> "vlan",
   provider_segmentation_id |-> 100]

\* _get_pool_network_info
GetPoolNetworkInfo(pool) ==
  LET subnet == GetSubnet(pool.subnet_id)
      network == GetNetwork(subnet.network_id)
      base == [network_id |-> subnet.network_id, subnet_id |-> pool.subnet_id]
      typed == IF "provider_network_type" \in DOMAIN network
                 THEN base @@ [network_type |-> network.provider_network_type]
                 ELSE base
  IN  IF "provider_segmentation_id" \in DOMAIN network
        THEN typed @@ [segmentation_id |-> network.provider_segmentation_id]
        ELSE typed

\* _get_pools_on_subnet: plugin.get_pools filtered by subnet and tenant.
GetPoolsOnSubnet(tenant_id, subnet_id) ==
  {q \in nsPools : q.subnet_id = subnet_id /\ q.tenant_id = tenant_id}

\* '_lb-snatport-' + subnet_id
SnatPortName(subnet_id) == <<"_lb-snatport-", subnet_id>>

\* Mutant: get_ports filtered by network and tenant only.
GetSnatPortsForSubnet_unnamed(tenant_id, subnet_id) ==
  {pt \in ports : /\ pt.network_id = GetSubnet(subnet_id).network_id
                  /\ pt.tenant_id = tenant_id}

\* _get_snatport_for_subnet: get_ports filtered by network, tenant and name.
\* The method takes the first port of the answer.
GetSnatPortsForSubnet(tenant_id, subnet_id) ==
  {pt \in ports : /\ pt.network_id = GetSubnet(subnet_id).network_id
                  /\ pt.tenant_id = tenant_id
                  /\ pt.name = SnatPortName(subnet_id)}

\* _create_snatport_for_subnet: the port core_plugin.create_port returns for
\* port_data, with the id and the address the core plugin gives it.
CreateSnatPortForSubnet(tenant_id, subnet_id) ==
  [id |-> nextPortId,
   tenant_id |-> tenant_id,
   name |-> SnatPortName(subnet_id),
   network_id |-> GetSubnet(subnet_id).network_id,
   admin_state_up |-> FALSE,
   device_id |-> "",
   device_owner |-> "",
   fixed_ips |-> <<[subnet_id |-> GetSubnet(subnet_id).id,
                    ip_address |-> <<subnet_id, nextPortId>>]>>]

\* network_info['port_id'] = ..., network_info['snat_ip'] = ...
WithSnatPort(network_info, port) ==
  [k \in (DOMAIN network_info) \ {"port_id", "snat_ip"} |-> network_info[k]]
    @@ [port_id |-> port.id, snat_ip |-> port.fixed_ips[1].ip_address]

\* get_pool_agent: the host the pool is bound to, None when there is none.
GetLbaasAgentHostingPool(pool_id) ==
  IF \E a \in poolAgents : a.pool_id = pool_id
    THEN (CHOOSE a \in poolAgents : a.pool_id = pool_id).host
    ELSE None

\* What a cast can answer: the message is sent, or the transport raises.
CastOutcomes == {"ok", "MessengerError"}

\* One collaborator call of an agent driver method, as its call log keeps it.
NsCall(name, arg, ret) == [call |-> name, arg |-> arg, ret |-> ret]

\* The running method of a worker and its locals.
NsMethod(op, old_pool, pool, host, network_info, port) ==
  [op |-> op, old_pool |-> old_pool, pool |-> pool, host |-> host,
   network_info |-> network_info, port |-> port]

NoPool == [id |-> None, tenant_id |-> None, subnet_id |-> None]
NoInfo == [network_id |-> None, subnet_id |-> None]
NoPort == [id |-> -1]
NsNoMethod == NsMethod("none", NoPool, NoPool, None, NoInfo, NoPort)

\* Workers in the middle of a method.
Running == {q \in Procs : npc[q] \notin {"idle", "done"}}

\* A method that may create a port starts only while port ids are left for
\* it and for every method already running.
PortIdsLeft == nextPortId + Cardinality(Running) < MaxPortIds

\* The core-plugin reads of _get_pool_network_info.
NetworkInfoCalls(pool) ==
  <<NsCall("get_subnet", pool.subnet_id, GetSubnet(pool.subnet_id).id),
    NsCall("get_network", GetSubnet(pool.subnet_id).network_id,
           GetSubnet(pool.subnet_id).network_id)>>

\* The worker's method ends: it returns (result "ok") or raises.
NsEnd(w, res) ==
  /\ npc' = [npc EXCEPT ![w] = "done"]
  /\ nresult' = [nresult EXCEPT ![w] = res]

\* The worker's method goes on at step next.
NsGoto(w, next) ==
  /\ npc' = [npc EXCEPT ![w] = next]
  /\ UNCHANGED nresult

NsLog(w, entries) == ncalls' = [ncalls EXCEPT ![w] = ncalls[w] \o entries]

\* The worker goes on at step next, or its method returns.
NsGotoOrEnd(w, next) ==
  IF next = "done" THEN NsEnd(w, "ok") ELSE NsGoto(w, next)

\* Mutant: create_pool goes on without an agent.
NotScheduled_ignored(agent) == FALSE

\* create_pool, "if not agent": the scheduler has found no agent.
NotScheduled(agent) == agent = None

\* Mutant: get_pool_agent returns whatever the lookup answers.
NoAgent_ignored(agent) == FALSE

\* get_pool_agent, "if not agent": no agent hosts the pool.
NoAgent(agent) == agent = None

\* Mutant: the SNAT port is created whatever the lookup found.
NoPort_always(found) == TRUE

\* _create_snatport_for_subnet_if_not_exists, "if not port".
NoPortFound(found) == found = {}

\* Mutant: the SNAT port is removed whatever pools are on the subnet.
NoPools_always(pools) == TRUE

\* _remove_snatport_for_subnet_if_not_used, "if not pools".
NoPoolsFound(pools) == pools = {}

\* Whether the method is an update_pool that changes the pool's subnet.
Moved(op, old_pool, pool) ==
  op = "update_pool" /\ pool.subnet_id # old_pool.subnet_id

\* Mutant: update_pool releases the old subnet's port before it ensures the
\* new subnet's.
Flow_release_first(op, moved, at) ==
  CASE op = "create_pool" ->
         (CASE at = "entry" -> "ensure"
            [] at = "ensure" -> "cast"
            [] OTHER -> "done")
    [] op = "update_pool" /\ moved ->
         (CASE at = "entry" -> "release"
            [] at = "release" -> "ensure"
            [] at = "ensure" -> "cast"
            [] OTHER -> "done")
    [] op = "update_pool" /\ ~moved ->
         (CASE at = "entry" -> "cast"
            [] OTHER -> "done")
    [] OTHER ->
         (CASE at = "entry" -> "cast"
            [] at = "cast" -> "delete_db"
            [] at = "delete_db" -> "release"
            [] OTHER -> "done")

\* Mutant: update_pool casts before it touches the SNAT ports.
Flow_cast_first(op, moved, at) ==
  CASE op = "create_pool" ->
         (CASE at = "entry" -> "ensure"
            [] at = "ensure" -> "cast"
            [] OTHER -> "done")
    [] op = "update_pool" /\ moved ->
         (CASE at = "entry" -> "cast"
            [] at = "cast" -> "ensure"
            [] at = "ensure" -> "release"
            [] OTHER -> "done")
    [] op = "update_pool" /\ ~moved ->
         (CASE at = "entry" -> "cast"
            [] OTHER -> "done")
    [] OTHER ->
         (CASE at = "entry" -> "cast"
            [] at = "cast" -> "delete_db"
            [] at = "delete_db" -> "release"
            [] OTHER -> "done")

\* The order of the steps of create_pool, update_pool and delete_pool: the
\* step that follows step at ("entry": the method's start up to its network
\* info), "done" when the method returns after it.
\*   create_pool            ensure, cast
\*   update_pool, moved     ensure, release, cast
\*   update_pool, not moved cast
\*   delete_pool            cast, delete_db, release
Flow(op, moved, at) ==
  CASE op = "create_pool" ->
         (CASE at = "entry" -> "ensure"
            [] at = "ensure" -> "cast"
            [] OTHER -> "done")
    [] op = "update_pool" /\ moved ->
         (CASE at = "entry" -> "ensure"
            [] at = "ensure" -> "release"
            [] at = "release" -> "cast"
            [] OTHER -> "done")
    [] op = "update_pool" /\ ~moved ->
         (CASE at = "entry" -> "cast"
            [] OTHER -> "done")
    [] OTHER ->
         (CASE at = "entry" -> "cast"
            [] at = "cast" -> "delete_db"
            [] at = "delete_db" -> "release"
            [] OTHER -> "done")

\* The step of a worker's method that follows step at.
After(w, at) ==
  Flow(ncur[w].op, Moved(ncur[w].op, ncur[w].old_pool, ncur[w].pool), at)

\* create_pool up to _get_pool_network_info: the service has stored the pool,
\* the scheduler picks an agent or none.
NS_create_pool(w, pool) ==
  /\ npc[w] = "idle"
  /\ PortIdsLeft
  /\ \A q \in nsPools : q.id # pool.id
  /\ nsPools' = nsPools \cup {pool}
  /\ \E agent \in Hosts \cup {None} :
       /\ ncur' = [ncur EXCEPT ![w] =
                     NsMethod("create_pool", NoPool, pool, agent,
                              IF NotScheduled(agent) THEN NoInfo
                              ELSE GetPoolNetworkInfo(pool), NoPort)]
       /\ IF NotScheduled(agent)
            THEN /\ ncalls' = [ncalls EXCEPT ![w] =
                                 <<NsCall("schedule", pool.id, agent)>>]
                 /\ NsEnd(w, "NoEligibleLbaasAgent")
                 /\ UNCHANGED poolAgents
            ELSE /\ ncalls' = [ncalls EXCEPT ![w] =
                                 <<NsCall("schedule", pool.id, agent)>>
                                   \o NetworkInfoCalls(pool)]
                 /\ poolAgents' = poolAgents
                                    \cup {[pool_id |-> pool.id, host |-> agent]}
                 /\ NsGoto(w, Flow("create_pool", FALSE, "entry"))
  /\ UNCHANGED <<ports, nextPortId>>
  /\ UNCHANGED <<nsObjs, edgeVars, restVars>>

\* update_pool up to the subnet comparison: the service has stored the new
\* pool, get_pool_agent finds the pool's agent or raises.
NS_update_pool(w, old_pool, pool) ==
  /\ npc[w] = "idle"
  /\ PortIdsLeft
  /\ old_pool \in nsPools
  /\ pool.id = old_pool.id /\ pool.tenant_id = old_pool.tenant_id
  /\ nsPools' = (nsPools \ {old_pool}) \cup {pool}
  /\ LET agent == GetLbaasAgentHostingPool(pool.id)
         lookup == NsCall("get_lbaas_agent_hosting_pool", pool.id, agent)
     IN  /\ ncur' = [ncur EXCEPT ![w] =
                       NsMethod("update_pool", old_pool, pool, agent,
                                IF NoAgent(agent) THEN NoInfo
                                ELSE GetPoolNetworkInfo(pool), NoPort)]
         /\ IF NoAgent(agent)
              THEN /\ ncalls' = [ncalls EXCEPT ![w] = <<lookup>>]
                   /\ NsEnd(w, "NoActiveLbaasAgent")
              ELSE /\ ncalls' = [ncalls EXCEPT ![w] =
                                   <<lookup>> \o NetworkInfoCalls(old_pool)
                                     \o NetworkInfoCalls(pool)]
                   /\ NsGoto(w, Flow("update_pool",
                                      Moved("update_pool", old_pool, pool),
                                      "entry"))
  /\ UNCHANGED <<poolAgents, ports, nextPortId>>
  /\ UNCHANGED <<nsObjs, edgeVars, restVars>>

\* delete_pool up to _get_pool_network_info: get_pool_agent finds the pool's
\* agent or raises.
NS_delete_pool(w, pool) ==
  /\ npc[w] = "idle"
  /\ pool \in nsPools
  \* the service refuses to delete a pool that its records still use
  /\ \A o \in nsObjs : o.pool_id # pool.id
  /\ LET agent == GetLbaasAgentHostingPool(pool.id)
         lookup == NsCall("get_lbaas_agent_hosting_pool", pool.id, agent)
     IN  /\ ncur' = [ncur EXCEPT ![w] =
                       NsMethod("delete_pool", NoPool, pool, agent,
                                IF NoAgent(agent) THEN NoInfo
                                ELSE GetPoolNetworkInfo(pool), NoPort)]
         /\ IF NoAgent(agent)
              THEN /\ ncalls' = [ncalls EXCEPT ![w] = <<lookup>>]
                   /\ NsEnd(w, "NoActiveLbaasAgent")
              ELSE /\ ncalls' = [ncalls EXCEPT ![w] =
                                   <<lookup>> \o NetworkInfoCalls(pool)]
                   /\ NsGoto(w, Flow("delete_pool", FALSE, "entry"))
  /\ UNCHANGED <<nsPools, poolAgents, ports, nextPortId>>
  /\ UNCHANGED <<nsObjs, edgeVars, restVars>>

\* _create_snatport_for_subnet_if_not_exists, its lookup: an existing port
\* (the first of get_ports' answer) goes into network_info.
NS_get_snatport_for_subnet(w) ==
  /\ npc[w] = "ensure"
  /\ LET pool == ncur[w].pool
         found == GetSnatPortsForSubnet(pool.tenant_id, pool.subnet_id)
         lookup == <<NsCall("get_subnet", pool.subnet_id, pool.subnet_id),
                     NsCall("get_ports",
                            [tenant_id |-> pool.tenant_id,
                             subnet_id |-> pool.subnet_id],
                            {pt.id : pt \in found})>>
     IN  /\ NsLog(w, lookup)
         /\ IF NoPortFound(found)
              THEN /\ NsGoto(w, "ensure_create")
                   /\ UNCHANGED ncur
              ELSE /\ \E port \in found :
                        ncur' = [ncur EXCEPT
                                   ![w].port = port,
                                   ![w].network_info =
                                     WithSnatPort(ncur[w].network_info, port)]
                   /\ NsGotoOrEnd(w, After(w, "ensure"))
  /\ UNCHANGED <<nsPools, poolAgents, ports, nextPortId>>
  /\ UNCHANGED <<nsObjs, edgeVars, restVars>>

\* _create_snatport_for_subnet_if_not_exists, no port found: create_port.
NS_create_snatport_for_subnet(w) ==
  /\ npc[w] = "ensure_create"
  /\ LET pool == ncur[w].pool
         port == CreateSnatPortForSubnet(pool.tenant_id, pool.subnet_id)
     IN  /\ ports' = ports \cup {port}
         /\ nextPortId' = nextPortId + 1
         /\ ncur' = [ncur EXCEPT
                       ![w].port = port,
                       ![w].network_info =
                         WithSnatPort(ncur[w].network_info, port)]
         /\ NsLog(w, <<NsCall("get_subnet", pool.subnet_id, pool.subnet_id),
                       NsCall("create_port",
                              [tenant_id |-> pool.tenant_id,
                               subnet_id |-> pool.subnet_id], port.id)>>)
         /\ NsGotoOrEnd(w, After(w, "ensure"))
  /\ UNCHANGED <<nsPools, poolAgents>>
  /\ UNCHANGED <<nsObjs, edgeVars, restVars>>

\* The pool whose subnet _remove_snatport_for_subnet_if_not_used is about:
\* update_pool's old pool, delete_pool's pool.
Released(m) == IF m.op = "update_pool" THEN m.old_pool ELSE m.pool

\* _remove_snatport_for_subnet_if_not_used, its query of the pools on the
\* subnet.
NS_remove_snatport_for_subnet_if_not_used(w) ==
  /\ npc[w] = "release"
  /\ LET old == Released(ncur[w])
         pools == GetPoolsOnSubnet(old.tenant_id, old.subnet_id)
     IN  /\ NsLog(w, <<NsCall("get_pools",
                              [tenant_id |-> old.tenant_id,
                               subnet_id |-> old.subnet_id],
                              {q.id : q \in pools})>>)
         /\ IF NoPoolsFound(pools)
              THEN NsGoto(w, "release_remove")
              ELSE NsGotoOrEnd(w, After(w, "release"))
  /\ UNCHANGED <<nsPools, poolAgents, ports, nextPortId, ncur>>
  /\ UNCHANGED <<nsObjs, edgeVars, restVars>>

\* _remove_snatport_for_subnet: the port found, if any, is deleted.
NS_remove_snatport_for_subnet(w) ==
  /\ npc[w] = "release_remove"
  /\ LET old == Released(ncur[w])
         found == GetSnatPortsForSubnet(old.tenant_id, old.subnet_id)
         lookup == <<NsCall("get_subnet", old.subnet_id, old.subnet_id),
                     NsCall("get_ports",
                            [tenant_id |-> old.tenant_id,
                             subnet_id |-> old.subnet_id],
                            {pt.id : pt \in found})>>
     IN  IF found = {}
           THEN /\ NsLog(w, lookup)
                /\ UNCHANGED ports
           ELSE \E port \in found :
                  /\ ports' = ports \ {port}
                  /\ NsLog(w, lookup \o
                             <<NsCall("delete_port",
                                      [tenant_id |-> old.tenant_id,
                                       subnet_id |-> old.subnet_id],
                                      port.id)>>)
  /\ NsGotoOrEnd(w, After(w, "release"))
  /\ UNCHANGED <<nsPools, poolAgents, nextPortId, ncur>>
  /\ UNCHANGED <<nsObjs, edgeVars, restVars>>

\* The message a method casts to the agent of its pool.
Message(m) ==
  [method |-> m.op, host |-> m.host, old_pool |-> m.old_pool,
   pool |-> m.pool,
   old_netinfo |-> IF m.op = "update_pool"
                     THEN GetPoolNetworkInfo(m.old_pool) ELSE NoInfo,
   netinfo |-> m.network_info]

\* agent_rpc.create_pool / update_pool / delete_pool: the cast; a cast that
\* raises ends the method.
NS_cast(w) ==
  /\ npc[w] = "cast"
  /\ \E out \in CastOutcomes :
       /\ NsLog(w, <<NsCall("cast", Message(ncur[w]), out)>>)
       /\ IF out # "ok" THEN NsEnd(w, out)
          ELSE NsGotoOrEnd(w, After(w, "cast"))
  /\ UNCHANGED <<nsPools, poolAgents, ports, nextPortId, ncur>>
  /\ UNCHANGED <<nsObjs, edgeVars, restVars>>

\* plugin._delete_db_pool: the pool's record goes, and its agent binding.
NS_delete_db_pool(w) ==
  /\ npc[w] = "delete_db"
  /\ nsPools' = {q \in nsPools : q.id # ncur[w].pool.id}
  /\ poolAgents' = {a \in poolAgents : a.pool_id # ncur[w].pool.id}
  /\ NsLog(w, <<NsCall("_delete_db_pool", ncur[w].pool.id, "ok")>>)
  /\ NsGotoOrEnd(w, After(w, "delete_db"))
  /\ UNCHANGED <<ports, nextPortId, ncur>>
  /\ UNCHANGED <<nsObjs, edgeVars, restVars>>

\* The method has returned or raised: the worker is ready for the next call.
NS_return(w) ==
  /\ npc[w] = "done"
  /\ npc' = [npc EXCEPT ![w] = "idle"]
  /\ ncur' = [ncur EXCEPT ![w] = NsNoMethod]
  /\ ncalls' = [ncalls EXCEPT ![w] = <<>>]
  /\ nresult' = [nresult EXCEPT ![w] = "none"]
  /\ UNCHANGED <<nsPools, poolAgents, ports, nextPortId>>
  /\ UNCHANGED <<nsObjs, edgeVars, restVars>>

\* ------------------------------- agent driver: vips, members and monitors

NsVipIds == {"vip-1"}
NsMemberIds == {"member-1"}
NsMonitorIds == {"hm-1"}

\* A vip, member or monitor record: the fields the driver reads.  Only a vip
\* has a subnet and a port.
NsObj(kind, id, pool_id, subnet_id, port_id) ==
  [kind |-> kind, id |-> id, pool_id |-> pool_id, subnet_id |-> subnet_id,
   port_id |-> port_id]

NsVips ==
  {NsObj("vip", id, p, "subnet-1", "vip-port-1") :
     id \in NsVipIds, p \in NsPoolIds}
NsMembers == {NsObj("member", id, p, None, None) :
                id \in NsMemberIds, p \in NsPoolIds}
NsMonitors == {NsObj("monitor", id, p, None, None) :
                 id \in NsMonitorIds, p \in NsPoolIds}

NoObj == NsObj(None, None, None, None, None)

VipOps == {"create_vip", "update_vip", "delete_vip"}
MemberOps == {"create_member", "update_member", "delete_member"}
MonitorOps ==
  {"create_pool_health_monitor", "update_health_monitor",
   "delete_pool_health_monitor"}
ObjDeleteOps == {"delete_vip", "delete_member", "delete_pool_health_monitor"}

\* plugin.get_pool
GetPool(pool_id) == CHOOSE q \in nsPools : q.id = pool_id

\* _get_vip_network_info
GetVipNetworkInfo(vip) ==
  LET subnet == GetSubnet(vip.subnet_id)
      network == GetNetwork(subnet.network_id)
      base == [port_id |-> vip.port_id, network_id |-> subnet.network_id,
               subnet_id |-> vip.subnet_id]
      typed == IF "provider_network_type" \in DOMAIN network
                 THEN base @@ [network_type |-> network.provider_network_type]
                 ELSE base
  IN  IF "provider_segmentation_id" \in DOMAIN network
        THEN typed @@ [segmentation_id |-> network.provider_segmentation_id]
        ELSE typed

\* The network info a vip, member or monitor method computes for obj: a
\* vip's own, for the others that of the pool plugin.get_pool returns.
ObjNetworkInfo(op, obj) ==
  IF op \in VipOps THEN GetVipNetworkInfo(obj)
  ELSE GetPoolNetworkInfo(GetPool(obj.pool_id))

\* The reads behind ObjNetworkInfo.
ObjNetworkInfoCalls(op, obj) ==
  IF op \in VipOps
    THEN <<NsCall("get_subnet", obj.subnet_id, GetSubnet(obj.subnet_id).id),
           NsCall("get_network", GetSubnet(obj.subnet_id).network_id,
                  GetSubnet(obj.subnet_id).network_id)>>
    ELSE NetworkInfoCalls(GetPool(obj.pool_id))

\* The plugin.get_pool calls of a member or monitor method.
GetPoolCalls(op, old_obj, obj) ==
  IF op \in VipOps THEN <<>>
  ELSE IF op = "update_member"
    THEN <<NsCall("get_pool", old_obj.pool_id, old_obj.pool_id),
           NsCall("get_pool", obj.pool_id, obj.pool_id)>>
  ELSE <<NsCall("get_pool", obj.pool_id, obj.pool_id)>>

\* Whether the method computes the network info of the old object too.
HasOldInfo(op) == op \in {"update_vip", "update_member"}

\* The running vip, member or monitor method of a worker and its locals.
NsObjMethod(op, old_obj, obj, host, old_network_info, network_info) ==
  [op |-> op, old_obj |-> old_obj, obj |-> obj, host |-> host,
   old_network_info |-> old_network_info, network_info |-> network_info]

\* Mutant: the delete methods remove the record before they cast.
ObjFlow_delete_first(op, at) ==
  IF op \in ObjDeleteOps
    THEN (CASE at = "entry" -> "obj_delete_db"
            [] at = "obj_delete_db" -> "obj_cast"
            [] OTHER -> "done")
    ELSE (CASE at = "entry" -> "obj_cast"
            [] OTHER -> "done")

\* The order of the steps of a vip, member or monitor method after its
\* agent lookup and network info ("entry"):
\*   delete_vip, delete_member, delete_pool_health_monitor   cast, delete_db
\*   the others                                              cast
ObjFlow(op, at) ==
  IF op \in ObjDeleteOps
    THEN (CASE at = "entry" -> "obj_cast"
            [] at = "obj_cast" -> "obj_delete_db"
            [] OTHER -> "done")
    ELSE (CASE at = "entry" -> "obj_cast"
            [] OTHER -> "done")

\* A vip, member or monitor method up to its cast: get_pool_agent finds the
\* agent of the object's pool or raises; then the network info is computed.
NsObjEntry(w, op, old_obj, obj) ==
  /\ npc[w] = "idle"
  /\ LET agent == GetLbaasAgentHostingPool(obj.pool_id)
         lookup == NsCall("get_lbaas_agent_hosting_pool", obj.pool_id, agent)
     IN  IF NoAgent(agent)
           THEN /\ ncur' = [ncur EXCEPT ![w] =
                              NsObjMethod(op, old_obj, obj, agent, NoInfo,
                                          NoInfo)]
                /\ ncalls' = [ncalls EXCEPT ![w] = <<lookup>>]
                /\ NsEnd(w, "NoActiveLbaasAgent")
           ELSE /\ ncur' = [ncur EXCEPT ![w] =
                              NsObjMethod(op, old_obj, obj, agent,
                                          IF HasOldInfo(op)
                                            THEN ObjNetworkInfo(op, old_obj)
                                            ELSE NoInfo,
                                          ObjNetworkInfo(op, obj))]
                /\ ncalls' = [ncalls EXCEPT ![w] =
                                <<lookup>> \o GetPoolCalls(op, old_obj, obj)
                                  \o (IF HasOldInfo(op)
                                        THEN ObjNetworkInfoCalls(op, old_obj)
                                        ELSE <<>>)
                                  \o ObjNetworkInfoCalls(op, obj)]
                /\ NsGoto(w, ObjFlow(op, "entry"))
  /\ UNCHANGED <<nsPools, poolAgents, ports, nextPortId>>
  /\ UNCHANGED <<edgeVars, restVars>>

\* A create method: the service has stored the new record on an existing
\* pool.
NsObjCreate(w, op, obj) ==
  /\ \A o \in nsObjs : o.id # obj.id
  /\ \E q \in nsPools : q.id = obj.pool_id
  /\ nsObjs' = nsObjs \cup {obj}
  /\ NsObjEntry(w, op, NoObj, obj)

\* An update method: the service has stored the changed record.
NsObjUpdate(w, op, old_obj, obj) ==
  /\ old_obj \in nsObjs
  /\ obj.id = old_obj.id
  /\ \E q \in nsPools : q.id = obj.pool_id
  /\ nsObjs' = (nsObjs \ {old_obj}) \cup {obj}
  /\ NsObjEntry(w, op, old_obj, obj)

\* A delete method: the record is still there when the driver is called.
NsObjDelete(w, op, obj) ==
  /\ obj \in nsObjs
  /\ UNCHANGED nsObjs
  /\ NsObjEntry(w, op, NoObj, obj)

NS_create_vip(w, vip) == NsObjCreate(w, "create_vip", vip)
NS_update_vip(w, old_vip, vip) == NsObjUpdate(w, "update_vip", old_vip, vip)
NS_delete_vip(w, vip) == NsObjDelete(w, "delete_vip", vip)
NS_create_member(w, member) == NsObjCreate(w, "create_member", member)
NS_update_member(w, old_member, member) ==
  NsObjUpdate(w, "update_member", old_member, member)
NS_delete_member(w, member) == NsObjDelete(w, "delete_member", member)
NS_create_pool_health_monitor(w, health_monitor) ==
  NsObjCreate(w, "create_pool_health_monitor", health_monitor)
NS_update_health_monitor(w, health_monitor) ==
  NsObjUpdate(w, "update_health_monitor", health_monitor, health_monitor)
NS_delete_pool_health_monitor(w, health_monitor) ==
  NsObjDelete(w, "delete_pool_health_monitor", health_monitor)

\* The message a vip, member or monitor method casts.
ObjMessage(m) ==
  [method |-> m.op, host |-> m.host, old_obj |-> m.old_obj, obj |-> m.obj,
   old_netinfo |-> m.old_network_info, netinfo |-> m.network_info]

\* agent_rpc.<method>: the cast; a cast that raises ends the method.
NS_obj_cast(w) ==
  /\ npc[w] = "obj_cast"
  /\ \E out \in CastOutcomes :
       /\ NsLog(w, <<NsCall("cast", ObjMessage(ncur[w]), out)>>)
       /\ IF out # "ok" THEN NsEnd(w, out)
          ELSE NsGotoOrEnd(w, ObjFlow(ncur[w].op, "obj_cast"))
  /\ UNCHANGED <<nsPools, poolAgents, ports, nextPortId, nsObjs, ncur>>
  /\ UNCHANGED <<edgeVars, restVars>>

\* plugin._delete_db_vip / _delete_db_member /
\* _delete_db_pool_health_monitor: the record goes.
NS_delete_db_obj(w) ==
  /\ npc[w] = "obj_delete_db"
  /\ nsObjs' = nsObjs \ {ncur[w].obj}
  /\ NsLog(w, <<NsCall("_delete_db", ncur[w].obj.id, "ok")>>)
  /\ NsGotoOrEnd(w, ObjFlow(ncur[w].op, "obj_delete_db"))
  /\ UNCHANGED <<nsPools, poolAgents, ports, nextPortId, ncur>>
  /\ UNCHANGED <<edgeVars, restVars>>

\* --------------------------------------- agent callbacks: the vip's port

CbPortIds == {"vip-port-1", "vip-port-2"}
CbHosts == {"host-1", "host-2"}

\* A port as the callbacks read and write it.
CbPort(id, admin_state_up, device_owner, device_id) ==
  [id |-> id, admin_state_up |-> admin_state_up,
   device_owner |-> device_owner, device_id |-> device_id]

\* str(uuid.uuid5(uuid.NAMESPACE_DNS, str(host))): a name-based id, the same
\* for the same host.
DeviceId(host) == <<"uuid5", "NAMESPACE_DNS", host>>

\* Mutant: plug flips the admin state it finds.
PlugPort_toggled(port, host) ==
  [port EXCEPT !.admin_state_up = ~ port.admin_state_up,
               !.device_owner = "neutron:LOADBALANCER",
               !.device_id = DeviceId(host)]

\* plug_vip_port: what it sets on the port it has read.
PlugPort(port, host) ==
  [port EXCEPT !.admin_state_up = TRUE,
               !.device_owner = "neutron:LOADBALANCER",
               !.device_id = DeviceId(host)]

\* unplug_vip_port: what it sets on the port it has read.
UnplugPort(port, host) ==
  [port EXCEPT !.admin_state_up = FALSE,
               !.device_owner = "",
               !.device_id = ""]

\* The change a callback makes to the port it has read.
CbChange(op, port, host) ==
  IF op = "plug_vip_port" THEN PlugPort(port, host)
  ELSE UnplugPort(port, host)

\* "if not port_id"
NoPortId(port_id) == port_id = None

\* core_plugin.get_port / update_port: whether the port is there.
PortExists(port_id) == \E pt \in ports : pt.id = port_id
GetPort(port_id) == CHOOSE pt \in ports : pt.id = port_id

\* plug_vip_port, "except q_exc.PortNotFound" around get_port: logged, the
\* callback returns.
PlugGetPortNotFound(err) == "ok"

\* Mutant: unplug lets PortNotFound through.
UnplugPortNotFound_raised(err) == err

\* unplug_vip_port, "except q_exc.PortNotFound" around get_port and around
\* update_port: logged, the callback returns.
UnplugPortNotFound(err) == "ok"

\* How a callback ends when get_port raises err.
CbGetPortFailed(op, err) ==
  IF op = "plug_vip_port" THEN PlugGetPortNotFound(err)
  ELSE UnplugPortNotFound(err)

\* How a callback ends when update_port raises err: plug_vip_port does not
\* catch it.
CbUpdatePortFailed(op, err) ==
  IF op = "plug_vip_port" THEN err ELSE UnplugPortNotFound(err)

\* The running callback of a worker and its locals.
CbMethod(op, port_id, host, port) ==
  [op |-> op, port_id |-> port_id, host |-> host, port |-> port]

\* A callback up to its update_port: no port_id, it returns; get_port; the
\* port it has read is changed in place.
CbEntry(w, op, port_id, host) ==
  /\ npc[w] = "idle"
  /\ IF NoPortId(port_id)
       THEN /\ ncur' = [ncur EXCEPT ![w] =
                          CbMethod(op, port_id, host, NoPort)]
            /\ ncalls' = [ncalls EXCEPT ![w] = <<>>]
            /\ NsEnd(w, "ok")
       ELSE IF PortExists(port_id)
         THEN /\ ncur' = [ncur EXCEPT ![w] =
                            CbMethod(op, port_id, host,
                                     CbChange(op, GetPort(port_id), host))]
              /\ ncalls' = [ncalls EXCEPT ![w] =
                              <<NsCall("get_port", port_id,
                                       GetPort(port_id))>>]
              /\ NsGoto(w, "update_port")
         ELSE /\ ncur' = [ncur EXCEPT ![w] =
                            CbMethod(op, port_id, host, NoPort)]
              /\ ncalls' = [ncalls EXCEPT ![w] =
                              <<NsCall("get_port", port_id,
                                       "PortNotFound")>>]
              /\ NsEnd(w, CbGetPortFailed(op, "PortNotFound"))
  /\ UNCHANGED <<nsPools, poolAgents, ports, nextPortId, nsObjs>>
  /\ UNCHANGED <<edgeVars, restVars>>

Cb_plug_vip_port(w, port_id, host) ==
  CbEntry(w, "plug_vip_port", port_id, host)

Cb_unplug_vip_port(w, port_id, host) ==
  CbEntry(w, "unplug_vip_port", port_id, host)

\* core_plugin.update_port(port_id, {'port': port}): the changed port is
\* written, or the port is gone and PortNotFound is raised.
Cb_update_port(w) ==
  /\ npc[w] = "update_port"
  /\ LET m == ncur[w]
     IN  IF PortExists(m.port_id)
           THEN /\ ports' = (ports \ {GetPort(m.port_id)}) \cup {m.port}
                /\ NsLog(w, <<NsCall("update_port", m.port, "ok")>>)
                /\ NsEnd(w, "ok")
           ELSE /\ UNCHANGED ports
                /\ NsLog(w, <<NsCall("update_port", m.port,
                                     "PortNotFound")>>)
                /\ NsEnd(w, CbUpdatePortFailed(m.op, "PortNotFound"))
  /\ UNCHANGED <<nsPools, poolAgents, nextPortId, nsObjs, ncur>>
  /\ UNCHANGED <<edgeVars, restVars>>

\* The service creates the port of a vip.
Core_create_port(port_id) ==
  /\ ~ PortExists(port_id)
  /\ ports' = ports \cup {CbPort(port_id, FALSE, "", "")}
  /\ UNCHANGED <<nsPools, poolAgents, nextPortId, nsObjs, npc, ncur, ncalls,
                 nresult>>
  /\ UNCHANGED <<edgeVars, restVars>>

\* The service deletes the port of a vip (the vip is deleted), whatever the
\* callbacks are doing.
Core_delete_port(port_id) ==
  /\ PortExists(port_id)
  /\ ports' = ports \ {GetPort(port_id)}
  /\ UNCHANGED <<nsPools, poolAgents, nextPortId, nsObjs, npc, ncur, ncalls,
                 nresult>>
  /\ UNCHANGED <<edgeVars, restVars>>

\* ---------------------------------------------------------- specifications

NsInit ==
  /\ nsPools = {}
  /\ poolAgents = {}
  /\ ports = {}
  /\ nextPortId = 0
  /\ nsObjs = {}
  /\ npc = [w \in Procs |-> "idle"]
  /\ ncur = [w \in Procs |-> NsNoMethod]
  /\ ncalls = [w \in Procs |-> <<>>]
  /\ nresult = [w \in Procs |-> "none"]

\* ------------------------------------------------- netscaler: REST client

\* httplib.BAD_REQUEST
BAD_REQUEST == 400

\* The answers of the device: a status and a body that is empty or not.
Statuses == {200, 201, 302, 399, 400, 401, 403, 404, 500}

Responses == [status : Statuses, body : {"", "<response/>"}]

\* connection.getresponse(): a response, or a failure of the connection.
GetResponseOutcomes == Responses \cup [error : {"LookupError"}]

\* object_data of create_resource and update_resource: a string, a dict, None.
ObjectData == {"<object/>", "dict", None}

\* str(response_status), for the three-digit statuses.
Str(n) ==
  <<Digits[(n \div 100) + 1], Digits[((n \div 10) % 10) + 1],
    Digits[(n % 10) + 1]>>

\* _is_valid_response
IsValidResponse(response_status) == response_status < BAD_REQUEST

\* The serializer create_resource and update_resource build: one for an
\* object_data that is no string and not empty.
HasSerializer(object_data) == object_data \notin {"<object/>", None}

\* _get_response_dict: the body is parsed or copied to 'dict' only for a
\* valid status and a body that is not empty.
GetResponseDict(response, serializer) ==
  [status |-> response.status,
   body |-> response.body,
   dict |-> IF IsValidResponse(response.status) /\ response.body # ""
              THEN IF serializer THEN "parsed" ELSE response.body
              ELSE None]

NoRespDict == [status |-> 0, body |-> "", dict |-> None]

\* How an operation ends: out is "return" with (status, resp_dict), or the
\* exception raised; log is the error the client logged.
RestReturn(resp_dict) ==
  [out |-> "return", status |-> resp_dict.status, resp_dict |-> resp_dict,
   log |-> "none"]

RestRaise(exc, log) ==
  [out |-> exc, status |-> 0, resp_dict |-> NoRespDict, log |-> log]

\* The status checks of create_resource, update_resource and remove_resource.
CheckedStatus(resp_dict, failed) ==
  IF is_proxy THEN RestReturn(resp_dict)
  ELSE IF Str(resp_dict.status) = <<"4", "0", "1">>
    THEN RestRaise("ServiceUnavailable", "Unable to login")
  ELSE IF ~IsValidResponse(resp_dict.status)
    THEN RestRaise("ServiceUnavailable", failed)
  ELSE RestReturn(resp_dict)

\* The status checks of retrieve_resource: only 401 is looked at.
RetrievedStatus(resp_dict) ==
  IF is_proxy THEN RestReturn(resp_dict)
  ELSE IF Str(resp_dict.status) = <<"4", "0", "1">>
    THEN RestRaise("ServiceUnavailable", "Unable to login")
  ELSE RestReturn(resp_dict)

\* except (LookupError, ImportError): raise ServiceUnavailable
ConnectionFailed == RestRaise("ServiceUnavailable", "Error while connecting")

RestMethod(op, arg, response) == [op |-> op, arg |-> arg, response |-> response]

RestNoMethod == RestMethod("none", None, [error |-> "none"])

RestEnd(op, arg, response, res) ==
  /\ rpc' = "done"
  /\ rcur' = RestMethod(op, arg, response)
  /\ rresult' = res
  /\ UNCHANGED is_proxy
  /\ UNCHANGED <<edgeVars, nsVars>>

Rest_create_resource(object_data, response) ==
  /\ rpc = "idle"
  /\ RestEnd("create_resource", object_data, response,
             IF "error" \in DOMAIN response THEN ConnectionFailed
             ELSE CheckedStatus(
                    GetResponseDict(response, HasSerializer(object_data)),
                    "Failed to create"))

Rest_retrieve_resource(parse_response, response) ==
  /\ rpc = "idle"
  /\ RestEnd("retrieve_resource", parse_response, response,
             IF "error" \in DOMAIN response THEN ConnectionFailed
             ELSE RetrievedStatus(GetResponseDict(response, parse_response)))

\* update_resource: request_body is bound only for a string or a non-empty
\* object_data; logging it unbound raises before the request is made.
Rest_update_resource(object_data, response) ==
  /\ rpc = "idle"
  /\ IF object_data = None
       THEN RestEnd("update_resource", object_data, [error |-> "none"],
                    RestRaise("UnboundLocalError", "none"))
       ELSE RestEnd("update_resource", object_data, response,
                    IF "error" \in DOMAIN response THEN ConnectionFailed
                    ELSE CheckedStatus(
                           GetResponseDict(response,
                                           HasSerializer(object_data)),
                           "Failed to update"))

\* remove_resource: no except clause, a connection failure goes to the caller.
Rest_remove_resource(parse_response, response) ==
  /\ rpc = "idle"
  /\ RestEnd("remove_resource", parse_response, response,
             IF "error" \in DOMAIN response
               THEN RestRaise(response.error, "none")
             ELSE CheckedStatus(GetResponseDict(response, parse_response),
                                "Failed to remove"))

\* The caller has taken the result.
Rest_return ==
  /\ rpc = "done"
  /\ rpc' = "idle"
  /\ rcur' = RestNoMethod
  /\ rresult' = RestRaise("none", "none")
  /\ UNCHANGED is_proxy
  /\ UNCHANGED <<edgeVars, nsVars>>

\* A client that has made no request; is_proxy as the constructor got it.
RestIdle ==
  /\ rpc = "idle"
  /\ rcur = RestNoMethod
  /\ rresult = RestRaise("none", "none")

RestInit ==
  /\ is_proxy \in BOOLEAN
  /\ RestIdle

\* Both drivers after construction, and a REST client that is no proxy.
Init == EdgeInit /\ NsInit /\ is_proxy = FALSE /\ RestIdle

\* The steps of worker w.
NsStep(w) ==
  \/ \E pool \in NsPools : NS_create_pool(w, pool)
  \/ \E old_pool \in NsPools, s \in Subnets :
       NS_update_pool(w, old_pool, [old_pool EXCEPT !.subnet_id = s])
  \/ \E pool \in NsPools : NS_delete_pool(w, pool)
  \/ NS_get_snatport_for_subnet(w)
  \/ NS_create_snatport_for_subnet(w)
  \/ NS_remove_snatport_for_subnet_if_not_used(w)
  \/ NS_remove_snatport_for_subnet(w)
  \/ NS_cast(w)
  \/ NS_delete_db_pool(w)
  \/ NS_return(w)

\* The vip, member and monitor steps of worker w.
NsObjStep(w) ==
  \/ \E vip \in NsVips : NS_create_vip(w, vip)
  \/ \E old_vip \in NsVips, vip \in NsVips : NS_update_vip(w, old_vip, vip)
  \/ \E vip \in NsVips : NS_delete_vip(w, vip)
  \/ \E member \in NsMembers : NS_create_member(w, member)
  \/ \E old_member \in NsMembers, member \in NsMembers :
       NS_update_member(w, old_member, member)
  \/ \E member \in NsMembers : NS_delete_member(w, member)
  \/ \E health_monitor \in NsMonitors :
       NS_create_pool_health_monitor(w, health_monitor)
  \/ \E health_monitor \in NsMonitors :
       NS_update_health_monitor(w, health_monitor)
  \/ \E health_monitor \in NsMonitors :
       NS_delete_pool_health_monitor(w, health_monitor)
  \/ NS_obj_cast(w)
  \/ NS_delete_db_obj(w)

\* The edge driver, its methods called one after the other.
SpecEdge == Init /\ [][EdgeNext]_vars

\* The edge driver in a process that may die at any of its steps.
EdgeCrashNext == EdgeNext \/ Edge_crash

SpecEdgeCrash == Init /\ [][EdgeCrashNext]_vars

\* A caller that creates pools and vips and deletes vips, and calls delete_vip
\* again and again.
EdgeRetryNext ==
  \/ \E e \in Edges, p \in Pools, ms \in Members : Edge_create_pool(e, p, ms)
  \/ Edge_create_pool_bind
  \/ \E e \in Edges, v \in Vips : Edge_create_vip(e, v)
  \/ Edge_create_vip_vip
  \/ Edge_create_vip_bind
  \/ \E id \in VipIds : Edge_delete_vip(id)
  \/ Edge_delete_vip_profile
  \/ Edge_delete_vip_unbind
  \/ Edge_return

\* The caller calls delete_vip whenever it can, over and over; a method that
\* has started runs to its end and returns.  Every step of a method changes
\* pc.
EdgeRetryFairness ==
  /\ SF_pc(\E id \in VipIds : Edge_delete_vip(id))
  /\ WF_pc(Edge_create_pool_bind)
  /\ WF_pc(Edge_create_vip_vip)
  /\ WF_pc(Edge_create_vip_bind)
  /\ WF_pc(Edge_delete_vip_profile)
  /\ WF_pc(Edge_delete_vip_unbind)
  /\ WF_pc(Edge_return)

SpecEdgeRetry == Init /\ [][EdgeRetryNext]_vars /\ EdgeRetryFairness

\* The agent driver, its methods called one after the other by one worker.
NsNext == \E w \in {"w1"} : NsStep(w)

SpecNs == Init /\ [][NsNext]_vars

\* The agent driver with its vip, member and monitor methods, all called one
\* after the other by one worker, for the pools of one tenant.
NsObjNext ==
  \E w \in {"w1"} :
    \/ \E pool \in {q \in NsPools : q.tenant_id = "tenant-1"} :
         NS_create_pool(w, pool)
    \/ \E pool \in NsPools : NS_delete_pool(w, pool)
    \/ NS_get_snatport_for_subnet(w)
    \/ NS_create_snatport_for_subnet(w)
    \/ NS_remove_snatport_for_subnet_if_not_used(w)
    \/ NS_remove_snatport_for_subnet(w)
    \/ NS_cast(w)
    \/ NS_delete_db_pool(w)
    \/ NS_return(w)
    \/ NsObjStep(w)

SpecNsObj == Init /\ [][NsObjNext]_vars

\* The agent driver called by two workers at once: the steps of their
\* create_pool and delete_pool calls for the pools of one tenant interleave.
NsConcNext ==
  \E w \in Procs :
    \/ \E pool \in {q \in NsPools : q.tenant_id = "tenant-1"} :
         NS_create_pool(w, pool)
    \/ \E pool \in NsPools : NS_delete_pool(w, pool)
    \/ NS_get_snatport_for_subnet(w)
    \/ NS_create_snatport_for_subnet(w)
    \/ NS_remove_snatport_for_subnet_if_not_used(w)
    \/ NS_remove_snatport_for_subnet(w)
    \/ NS_cast(w)
    \/ NS_delete_db_pool(w)
    \/ NS_return(w)

SpecNsConc == Init /\ [][NsConcNext]_vars

\* The callbacks of the agent, handled one after the other, while the service
\* creates and deletes vip ports.
CbNext ==
  \/ \E w \in {"w1"} :
       \/ \E port_id \in CbPortIds \cup {None}, host \in CbHosts :
            Cb_plug_vip_port(w, port_id, host)
       \/ \E port_id \in CbPortIds \cup {None}, host \in CbHosts :
            Cb_unplug_vip_port(w, port_id, host)
       \/ Cb_update_port(w)
       \/ NS_return(w)
  \/ \E port_id \in CbPortIds : Core_create_port(port_id)
  \/ \E port_id \in CbPortIds : Core_delete_port(port_id)

SpecCb == Init /\ [][CbNext]_vars

\* ------------------------------------------- edge: the translator on its own

\* The translator functions applied to given inputs over a given binding
\* table: each application is logged with its argument, the rows its lookups
\* gave and what it returned.

ConvPoolIds == {"pool-1", "pool-2"}
ConvMonitorIds == {"hm-1", "hm-2"}

\* The binding tables: every (pool, edge) bound to one of two backend ids or
\* unbound, every monitor bound on edge-1 or unbound.  One row per (kind, id,
\* edge) as AddBinding keeps it; a backend id may stand in two rows, as after
\* a binding outlived its backend object and the id was handed out again.
ConvStores ==
  LET PoolVse == {NoId, VseIdStr(0), VseIdStr(1)}
      MonVse == [m \in ConvMonitorIds |->
                   IF m = "hm-1" THEN VseIdStr(2) ELSE VseIdStr(3)]
  IN  {{BindingRow("pool", k[1], k[2], f[k], NoId) :
          k \in {k \in ConvPoolIds \X Edges : f[k] # NoId}}
         \cup {BindingRow("monitor", m, "edge-1", MonVse[m], NoId) : m \in ms} :
       f \in [ConvPoolIds \X Edges -> PoolVse], ms \in SUBSET ConvMonitorIds}

ConvVips ==
  [id : VipIds, name : {"web"}, address : {"10.0.0.5", "10.0.0.6"},
   protocol : {"TCP", "HTTP", "HTTPS"}, protocol_port : {80, 443},
   pool_id : ConvPoolIds]

\* Pools with a supported, an unsupported or no lb_method, and with no, an
\* empty, a one-entry or a two-entry health_monitors list.
ConvPools ==
  LET base == [id |-> "pool-1", name |-> "pool"]
      methods == {<<>>} \cup
                 {[lb_method |-> m] :
                    m \in DOMAIN BALANCE_MAP \cup {"WEIGHTED", None}}
      monitors == {<<>>} \cup
                  {[health_monitors |-> l] :
                     l \in {<<>>, <<"hm-1">>, <<"hm-2">>, <<"hm-1", "hm-2">>,
                            <<"hm-2", "hm-1">>}}
  IN  {base @@ m @@ l : m \in methods, l \in monitors}

\* Monitors with a supported, an unsupported or no type.
ConvMonitors ==
  LET base == [id : ConvMonitorIds, delay : {5, 7}, timeout : {3},
               max_retries : {2}]
      types == {<<>>} \cup
               {[type |-> t] : t \in DOMAIN PROTOCOL_MAP \cup {"PING", None}}
  IN  {b @@ t : b \in base, t \in types}

\* Longest generated location string.
MaxUriLen == 4

UriChars == {"/", "a", "1"}

\* Location strings: every string of up to MaxUriLen characters, with and
\* without '/', and one that ends in /abc123.
ObjUris ==
  UNION {[1..n -> UriChars] : n \in 0..MaxUriLen}
    \cup {<<"/", "a", "p", "i", "/", "a", "b", "c", "1", "2", "3">>}

\* One application of a translator function: out is "ok" when it returned
\* ret, the error when it raised.
ConvCall(name, edge_id, arg, lookups, out, ret) ==
  [call |-> name, edge_id |-> edge_id, arg |-> arg, lookups |-> lookups,
   out |-> out, ret |-> ret]

ConvStep(op, edge_id, arg, lookups, out, ret, next) ==
  /\ pc' = next
  /\ cur' = Method(op, edge_id, arg, NoId, NoId)
  /\ calls' = Append(calls, ConvCall(op, edge_id, arg, lookups, out, ret))
  /\ result' = out
  /\ UNCHANGED <<vse, nextVseId, bindings>>
  /\ UNCHANGED <<nsVars, restVars>>

\* _convert_lb_vip(edge_id, vip, app_profileid): the pool's binding is looked
\* up by vip.pool_id; subscripting a missing binding raises.
Conv_convert_lb_vip(edge_id, vip, app_profileid) ==
  /\ pc = "idle"
  /\ LET rows == GetBinding(bindings, "pool", DictGet(vip, "pool_id", None),
                            edge_id)
     IN  IF rows = {}
           THEN ConvStep("_convert_lb_vip", edge_id, vip, <<rows>>,
                         NoneSubscript, NoBody, "done")
           ELSE \E poolid_map \in rows :
                  ConvStep("_convert_lb_vip", edge_id, vip, <<{poolid_map}>>,
                           "ok", ConvertLbVip(vip, poolid_map, app_profileid),
                           "converted")

\* _restore_lb_vip(edge_id, vip_vse) on the payload just converted: the pool's
\* binding is looked up by the backend pool id.
Conv_restore_lb_vip ==
  /\ pc = "converted"
  /\ LET vip_vse == calls[1].ret
         rows == GetBindingByVseid(bindings, "pool", cur.edge_id,
                                   vip_vse.defaultPoolId)
     IN  IF rows = {}
           THEN ConvStep("_restore_lb_vip", cur.edge_id, vip_vse, <<rows>>,
                         NoneSubscript, NoBody, "done")
           ELSE \E pool_binding \in rows :
                  ConvStep("_restore_lb_vip", cur.edge_id, vip_vse,
                           <<{pool_binding}>>, "ok",
                           RestoreLbVip(vip_vse, pool_binding), "done")

\* _convert_lb_pool(edge_id, pool, members)
Conv_convert_lb_pool(edge_id, pool, members) ==
  /\ pc = "idle"
  /\ ConvStep("_convert_lb_pool", edge_id, pool,
              ConvertLbPoolLookups(edge_id, pool),
              IF ConvertLbPoolOk(edge_id, pool) THEN "ok" ELSE NoneSubscript,
              PoolBody(edge_id, pool, members), "done")

\* _convert_lb_monitor(monitor)
Conv_convert_lb_monitor(monitor) ==
  /\ pc = "idle"
  /\ ConvStep("_convert_lb_monitor", None, monitor, <<>>, "ok",
              ConvertLbMonitor(monitor), "done")

\* objuri[objuri.rfind("/") + 1:] of a create response's location
Conv_objuri_id(objuri) ==
  /\ pc = "idle"
  /\ ConvStep("objuri_id", None, objuri, <<>>, "ok", ObjUriId(objuri),
              "done")

ConvInit ==
  /\ vse = {}
  /\ nextVseId = 0
  /\ bindings \in ConvStores
  /\ pc = "idle"
  /\ cur = NoMethod
  /\ calls = <<>>
  /\ result = "none"
  /\ NsInit
  /\ is_proxy = FALSE
  /\ RestIdle

ConvNext ==
  \/ \E edge_id \in Edges, vip \in ConvVips :
       Conv_convert_lb_vip(edge_id, vip, VseIdStr(3))
  \/ Conv_restore_lb_vip
  \/ \E edge_id \in Edges, pool \in ConvPools, members \in Members :
       Conv_convert_lb_pool(edge_id, pool, members)
  \/ \E monitor \in ConvMonitors : Conv_convert_lb_monitor(monitor)
  \/ \E objuri \in ObjUris : Conv_objuri_id(objuri)
  \/ Edge_return

SpecConv == ConvInit /\ [][ConvNext]_vars

RestNext ==
  \/ \E object_data \in ObjectData, response \in GetResponseOutcomes :
       Rest_create_resource(object_data, response)
  \/ \E parse_response \in BOOLEAN, response \in GetResponseOutcomes :
       Rest_retrieve_resource(parse_response, response)
  \/ \E object_data \in ObjectData, response \in GetResponseOutcomes :
       Rest_update_resource(object_data, response)
  \/ \E parse_response \in BOOLEAN, response \in GetResponseOutcomes :
       Rest_remove_resource(parse_response, response)
  \/ Rest_return

\* A REST client after construction, beside the two drivers.
RestClientInit == EdgeInit /\ NsInit /\ RestInit

SpecRest == RestClientInit /\ [][RestNext]_vars

\* ------------------------------------------------ edge driver: properties

CreateOps == {"create_vip", "create_pool", "create_health_monitor"}
DeleteOps == {"delete_vip", "delete_pool", "delete_health_monitor"}

BackendCreates ==
  {"create_app_profile", "create_vip", "create_pool", "create_health_monitor"}
BackendDeletes ==
  {"delete_app_profile", "delete_vip", "delete_pool", "delete_health_monitor"}
AddBindingCalls ==
  {"add_vcns_edge_vip_binding", "add_vcns_edge_pool_binding",
   "add_vcns_edge_monitor_binding"}
DeleteBindingCalls ==
  {"delete_vcns_edge_vip_binding", "delete_vcns_edge_pool_binding",
   "delete_vcns_edge_monitor_binding"}

\* The places of a log where one of the named calls stands, all or only
\* those answered "ok" or not "ok".
At(log, names) == {i \in 1..Len(log) : log[i].call \in names}
OkAt(log, names) == {i \in At(log, names) : log[i].out = "ok"}
FailedAt(log, names) == {i \in At(log, names) : log[i].out # "ok"}

\* The backend calls a create or delete method makes when none fails.
BackendCallsOf(op) == IF op \in {"create_vip", "delete_vip"} THEN 2 ELSE 1

\* The kind of object a method is about.
KindOf(op) ==
  IF op \in {"create_vip", "get_vip", "update_vip", "delete_vip"} THEN "vip"
  ELSE IF op \in {"create_pool", "get_pool", "update_pool", "delete_pool"}
    THEN "pool"
  ELSE "monitor"

\* C1: in create_pool, create_health_monitor and create_vip, a step in which
\* a backend create call fails ends the method with the error of that call,
\* with no binding written by the method; a step that writes a binding comes
\* after all the backend create calls of the method have succeeded.
C1_FailedCreateWritesNoBinding ==
  [][cur'.op \in CreateOps =>
       /\ FailedAt(calls', BackendCreates) # {} =>
            /\ FailedAt(calls', BackendCreates) = {Len(calls')}
            /\ pc' = "done"
            /\ result' = calls'[Len(calls')].out
            /\ At(calls', AddBindingCalls) = {}
            /\ bindings' = bindings
       /\ bindings' # bindings =>
            /\ FailedAt(calls, BackendCreates) = {}
            /\ Cardinality(OkAt(calls, BackendCreates)) = BackendCallsOf(cur.op)
            /\ cur.op = cur'.op]_vars

\* C1 witness: create_vip has ended with the error of its failed create_vip
\* call, after its app profile was created.
C1_Witness ==
  /\ pc = "done"
  /\ cur.op = "create_vip"
  /\ Len(calls) = 3
  /\ calls[3].call = "create_vip"
  /\ calls[3].out = "BackendRejected"
  /\ result = "BackendRejected"

IsBackendCreate(c) == c.call \in BackendCreates

\* C2: create_vip issues its backend create calls in the order app profile,
\* vip; the vip call is issued only after the profile call succeeded; the
\* binding is written only after both succeeded; a create_vip that returns
\* has issued exactly these two calls and written the binding.
C2_CreateVipProfileThenVip ==
  cur.op = "create_vip" =>
    LET creates == SelectSeq(calls, IsBackendCreate)
        bound == BindingRow("vip", cur.obj.id, cur.edge_id, cur.vseid,
                            cur.app_profileid) \in bindings
    IN  /\ Len(creates) <= 2
        /\ Len(creates) >= 1 => creates[1].call = "create_app_profile"
        /\ Len(creates) = 2 =>
             creates[2].call = "create_vip" /\ creates[1].out = "ok"
        /\ At(calls, AddBindingCalls) # {} \/ (cur.vseid # NoId /\ bound) =>
             /\ Len(creates) = 2
             /\ creates[1].out = "ok" /\ creates[2].out = "ok"
             /\ \A k \in At(calls, AddBindingCalls) :
                  At(calls, BackendCreates) \subseteq 1..(k - 1)
        /\ result = "ok" =>
             /\ Len(creates) = 2
             /\ At(calls, AddBindingCalls) # {}
             /\ bound

\* C2 witness: create_vip has returned, its binding written.
C2_Witness ==
  /\ pc = "done"
  /\ cur.op = "create_vip"
  /\ result = "ok"
  /\ \E r \in bindings : r.kind = "vip" /\ r.vseid = cur.vseid

\* C3: in delete_vip, delete_pool and delete_health_monitor, a step that
\* removes a binding comes after all the backend delete calls of the method
\* have succeeded; a step in which a backend delete call fails ends the
\* method with the error of that call and leaves the bindings as they were,
\* the binding of the object still among them.
C3_FailedDeleteKeepsBinding ==
  [][cur'.op \in DeleteOps =>
       /\ bindings' # bindings =>
            /\ FailedAt(calls, BackendDeletes) = {}
            /\ Cardinality(OkAt(calls, BackendDeletes)) = BackendCallsOf(cur.op)
            /\ cur.op = cur'.op
       /\ FailedAt(calls', BackendDeletes) # {} =>
            /\ FailedAt(calls', BackendDeletes) = {Len(calls')}
            /\ pc' = "done"
            /\ result' = calls'[Len(calls')].out
            /\ At(calls', DeleteBindingCalls) = {}
            /\ bindings' = bindings
            /\ \E r \in bindings' :
                 /\ r.kind = KindOf(cur'.op) /\ r.id = cur'.obj.id
                 /\ r.edge_id = cur'.edge_id /\ r.vseid = cur'.vseid]_vars

\* C3 witness: delete_vip has ended with the error of its failed
\* delete_app_profile call, after the backend vip was deleted; the binding is
\* there.
C3_Witness ==
  /\ pc = "done"
  /\ cur.op = "delete_vip"
  /\ Len(calls) = 3
  /\ calls[2].call = "delete_vip" /\ calls[2].out = "ok"
  /\ calls[3].call = "delete_app_profile"
  /\ calls[3].out = "BackendUnavailable"
  /\ result = "BackendUnavailable"
  /\ \E r \in bindings : r.kind = "vip" /\ r.id = cur.obj.id

\* The backend object a binding row stands for.
ObjectOf(r) == [edge_id |-> r.edge_id, kind |-> r.kind, vseid |-> r.vseid]

\* C4: between methods, a binding exists if and only if its backend object
\* exists: every binding row names an object that is on its edge, and every
\* vip, pool and monitor on an edge is named by a binding row.
C4_BindingIffBackendObject ==
  pc = "idle" =>
    /\ \A r \in bindings : ObjectOf(r) \in vse
    /\ \A o \in vse :
         o.kind \in {"vip", "pool", "monitor"} =>
           \E r \in bindings : ObjectOf(r) = o

C6_CreateVipNotRolledBack ==
  (/\ cur.op = "create_vip"
   /\ OkAt(calls, {"create_app_profile"}) # {}
   /\ FailedAt(calls, {"create_vip"}) # {}) =>
    /\ pc = "done"
    /\ [edge_id |-> cur.edge_id, kind |-> "app_profile",
        vseid |-> cur.app_profileid] \in vse
    /\ At(calls, BackendDeletes) = {}
    /\ At(calls, AddBindingCalls) = {}
    /\ \A r \in bindings :
         ~(r.edge_id = cur.edge_id /\ r.app_profileid = cur.app_profileid)

\* C6 witness: create_vip has ended on a failed vip call, its profile left
\* on the edge.
C6_Witness ==
  /\ pc = "done"
  /\ cur.op = "create_vip"
  /\ OkAt(calls, {"create_app_profile"}) # {}
  /\ FailedAt(calls, {"create_vip"}) # {}
  /\ cur.app_profileid # NoId
  /\ result \in VcnsErrors

\* ----------------------------------------------- agent driver: properties

\* The SNAT ports of a (tenant, subnet): the tenant's ports of that name.
SnatPortsOf(tenant_id, subnet_id) ==
  {pt \in ports : pt.tenant_id = tenant_id
                    /\ pt.name = <<"_lb-snatport-", subnet_id>>}

\* The pools of a tenant that reference a subnet.
PoolsOn(tenant_id, subnet_id) ==
  {q \in nsPools : q.tenant_id = tenant_id /\ q.subnet_id = subnet_id}

\* The places of a worker's log where call name stands with (tenant, subnet)
\* as its argument.
NsAt(log, name, tenant_id, subnet_id) ==
  {i \in 1..Len(log) :
     /\ log[i].call = name
     /\ log[i].arg = [tenant_id |-> tenant_id, subnet_id |-> subnet_id]}

\* The places of a worker's log where a message is cast.
CastAt(log) == {i \in 1..Len(log) : log[i].call = "cast"}

\* C7: methods called one after the other.  There are never two SNAT ports
\* for one (tenant, subnet).  A create_pool that returns leaves exactly one
\* SNAT port on the pool's subnet: it creates one when its lookup found none
\* and creates none when its lookup found one.  A delete_pool that returns
\* with other pools left on the subnet has deleted no port and the subnet's
\* port is in place; with no pool left, the subnet has no SNAT port.
C7_OneSnatPortPerSubnet ==
  LET m == ncur["w1"]
      log == ncalls["w1"]
      t == m.pool.tenant_id
      s == m.pool.subnet_id
      returned == npc["w1"] = "done" /\ nresult["w1"] = "ok"
  IN  /\ \A tt \in Tenants, ss \in Subnets :
           Cardinality(SnatPortsOf(tt, ss)) <= 1
      /\ (returned /\ m.op = "create_pool") =>
           /\ Cardinality(SnatPortsOf(t, s)) = 1
           /\ \A i \in NsAt(log, "get_ports", t, s) :
                Cardinality(NsAt(log, "create_port", t, s)) =
                  (IF log[i].ret = {} THEN 1 ELSE 0)
           /\ m.port \in SnatPortsOf(t, s)
      /\ (returned /\ m.op = "delete_pool") =>
           IF PoolsOn(t, s) # {}
             THEN /\ NsAt(log, "delete_port", t, s) = {}
                  /\ Cardinality(SnatPortsOf(t, s)) = 1
             ELSE SnatPortsOf(t, s) = {}

\* C7 witness: the second pool of a subnet has been created; its create_pool
\* found the port of the first and created none.
C7_Witness ==
  LET m == ncur["w1"]
      log == ncalls["w1"]
  IN  /\ npc["w1"] = "done" /\ nresult["w1"] = "ok"
      /\ m.op = "create_pool"
      /\ Cardinality(PoolsOn(m.pool.tenant_id, m.pool.subnet_id)) = 2
      /\ NsAt(log, "create_port", m.pool.tenant_id, m.pool.subnet_id) = {}
      /\ nextPortId = 1
      /\ Cardinality(ports) = 1

\* C8: between methods, a SNAT port exists for a (tenant, subnet) if and only
\* if a pool of the tenant references the subnet.
C8_SnatPortIffPool ==
  npc["w1"] = "idle" =>
    \A t \in Tenants, s \in Subnets :
      SnatPortsOf(t, s) # {} <=> PoolsOn(t, s) # {}

\* Whether worker w1 runs (or has run) an update_pool that changes the
\* pool's subnet and has found the pool's agent.
MovingPool ==
  /\ ncur["w1"].op = "update_pool"
  /\ ncur["w1"].pool.subnet_id # ncur["w1"].old_pool.subnet_id
  /\ ncur["w1"].host # None

\* C9: an update_pool moves a pool to a subnet on which its lookup found no
\* SNAT port, and another pool is left on the old subnet.  Then every cast of
\* the method comes after its create_port on the new subnet, the new subnet
\* has its port when the message is cast, the method deletes no port, and the
\* old subnet's port is in place.
C9_MoveCreatesPortBeforeCast ==
  LET m == ncur["w1"]
      log == ncalls["w1"]
      t == m.pool.tenant_id
      new == m.pool.subnet_id
      old == m.old_pool.subnet_id
  IN  (/\ MovingPool
       /\ \E i \in NsAt(log, "get_ports", t, new) : log[i].ret = {}
       /\ PoolsOn(t, old) # {}) =>
        /\ \A k \in CastAt(log) :
             /\ \E j \in NsAt(log, "create_port", t, new) : j < k
             /\ SnatPortsOf(t, new) # {}
             /\ log[k].arg.netinfo.port_id \in
                  {pt.id : pt \in SnatPortsOf(t, new)}
        /\ \A i \in 1..Len(log) : log[i].call # "delete_port"
        /\ SnatPortsOf(t, old) # {}

\* C9 witness: such an update_pool has returned.
C9_Witness ==
  LET m == ncur["w1"]
      log == ncalls["w1"]
  IN  /\ MovingPool
      /\ npc["w1"] = "done" /\ nresult["w1"] = "ok"
      /\ NsAt(log, "create_port", m.pool.tenant_id, m.pool.subnet_id) # {}
      /\ PoolsOn(m.old_pool.tenant_id, m.old_pool.subnet_id) # {}
      /\ SnatPortsOf(m.old_pool.tenant_id, m.old_pool.subnet_id) # {}

\* C10: in an update_pool that changes the pool's subnet, the release of the
\* old subnet's port starts (its get_pools query) only after the ensure step
\* on the new subnet is over, with a SNAT port on the new subnet; and at no
\* step of the method are the old and the new subnet both without a SNAT
\* port.
C10_EnsureNewBeforeReleaseOld ==
  LET m == ncur["w1"]
      log == ncalls["w1"]
      t == m.pool.tenant_id
      new == m.pool.subnet_id
      old == m.old_pool.subnet_id
  IN  MovingPool =>
        /\ \A k \in NsAt(log, "get_pools", t, old) :
             \/ \E j \in NsAt(log, "create_port", t, new) : j < k
             \/ \E j \in NsAt(log, "get_ports", t, new) :
                  j < k /\ log[j].ret # {}
        /\ (NsAt(log, "get_pools", t, old) # {}
              \/ npc["w1"] \in {"release", "release_remove"}) =>
             SnatPortsOf(t, new) # {}
        /\ SnatPortsOf(t, old) # {} \/ SnatPortsOf(t, new) # {}

\* C10 witness: the update_pool has deleted the old subnet's port, the new
\* subnet's is there.
C10_Witness ==
  LET m == ncur["w1"]
      log == ncalls["w1"]
  IN  /\ MovingPool
      /\ NsAt(log, "delete_port", m.old_pool.tenant_id,
              m.old_pool.subnet_id) # {}
      /\ SnatPortsOf(m.old_pool.tenant_id, m.old_pool.subnet_id) = {}
      /\ SnatPortsOf(m.pool.tenant_id, m.pool.subnet_id) # {}

\* C11: an update_pool that changes the pool's subnet ensures the SNAT port
\* of the new subnet, then casts the update_pool message, then releases the
\* old subnet's port: every cast follows the lookup on the new subnet, the
\* release of the old subnet starts only after a cast, and no port of the old
\* subnet is deleted before the message has been cast.
C11_EnsureDispatchRelease ==
  LET m == ncur["w1"]
      log == ncalls["w1"]
      t == m.pool.tenant_id
      new == m.pool.subnet_id
      old == m.old_pool.subnet_id
  IN  MovingPool =>
        /\ \A k \in CastAt(log) :
             \E j \in NsAt(log, "get_ports", t, new) : j < k
        /\ \A r \in NsAt(log, "get_pools", t, old) :
             \E k \in CastAt(log) : k < r
        /\ \A d \in NsAt(log, "delete_port", t, old) :
             \E k \in CastAt(log) : k < d

\* C12: a create_pool step in which the scheduler answers with no agent ends
\* the method with NoEligibleLbaasAgent; the method has made no other call
\* (no port lookup, no core-plugin call, no cast), and no port and no agent
\* binding has been created.
C12_NoAgentCreatesNothing ==
  [][(/\ npc["w1"] = "idle"
      /\ ncur'["w1"].op = "create_pool"
      /\ ncur'["w1"].host = None) =>
       /\ npc'["w1"] = "done"
       /\ nresult'["w1"] = "NoEligibleLbaasAgent"
       /\ ncalls'["w1"] = <<NsCall("schedule", ncur'["w1"].pool.id, None)>>
       /\ ports' = ports /\ nextPortId' = nextPortId
       /\ poolAgents' = poolAgents]_vars

\* C12 witness: a create_pool has failed for want of an agent while another
\* pool has its port.
C12_Witness ==
  /\ ncur["w1"].op = "create_pool"
  /\ ncur["w1"].host = None
  /\ nresult["w1"] = "NoEligibleLbaasAgent"
  /\ ports # {}

\* ------------------------- agent driver: vip, member and monitor properties

\* The places of a worker's log where call name stands.
NsCallAt(log, name) == {i \in 1..Len(log) : log[i].call = name}

\* C13: delete_pool, delete_vip and delete_member remove the database record
\* only after the delete message has been cast (and the record is there
\* until then); delete_pool starts its SNAT release only after the pool's
\* record is removed, its query of the subnet's pools does not count the
\* deleted pool, and a delete_pool that returns has run the release.
C13_CastThenDeleteThenRelease ==
  LET m == ncur["w1"]
      log == ncalls["w1"]
      running == npc["w1"] # "idle" /\ Len(log) > 0
  IN  /\ (running /\ m.op \in {"delete_vip", "delete_member"}) =>
           /\ \A d \in NsCallAt(log, "_delete_db") :
                \E k \in CastAt(log) : k < d /\ log[k].ret = "ok"
           /\ (m.obj \in nsObjs) <=> (NsCallAt(log, "_delete_db") = {})
      /\ (running /\ m.op = "delete_pool") =>
           /\ \A d \in NsCallAt(log, "_delete_db_pool") :
                \E k \in CastAt(log) : k < d /\ log[k].ret = "ok"
           /\ (m.pool \in nsPools) <=> (NsCallAt(log, "_delete_db_pool") = {})
           /\ \A r \in NsCallAt(log, "get_pools") :
                /\ \E d \in NsCallAt(log, "_delete_db_pool") : d < r
                /\ m.pool.id \notin log[r].ret
           /\ (npc["w1"] = "done" /\ nresult["w1"] = "ok") =>
                NsCallAt(log, "get_pools") # {}

\* C13 witness: a delete_pool has returned: it cast, removed the record, then
\* found no pool left on the subnet and deleted the SNAT port, while a vip
\* record of another pool is on file.
C13_Witness ==
  LET m == ncur["w1"]
      log == ncalls["w1"]
  IN  /\ m.op = "delete_pool"
      /\ npc["w1"] = "done" /\ nresult["w1"] = "ok"
      /\ NsCallAt(log, "delete_port") # {}
      /\ \E o \in nsObjs : o.kind = "vip"

\* C14: a vip, member or monitor method whose pool has no agent ends at once
\* with NoActiveLbaasAgent: its only call is the agent lookup, it casts no
\* message and, a delete method, leaves the record in the database.
C14_NoAgentNoDispatch ==
  [][(/\ npc["w1"] = "idle"
      /\ ncur'["w1"].op \in VipOps \cup MemberOps \cup MonitorOps
      /\ ncur'["w1"].host = None) =>
       /\ npc'["w1"] = "done"
       /\ nresult'["w1"] = "NoActiveLbaasAgent"
       /\ ncalls'["w1"] =
            <<NsCall("get_lbaas_agent_hosting_pool",
                     ncur'["w1"].obj.pool_id, None)>>
       /\ CastAt(ncalls'["w1"]) = {}
       /\ ncur'["w1"].op \in ObjDeleteOps =>
            /\ nsObjs' = nsObjs
            /\ ncur'["w1"].obj \in nsObjs']_vars

\* C14 witness: a delete_vip has failed for want of an agent and the vip's
\* record is still there.
C14_Witness ==
  /\ ncur["w1"].op = "delete_vip"
  /\ npc["w1"] = "done"
  /\ nresult["w1"] = "NoActiveLbaasAgent"
  /\ ncur["w1"].obj \in nsObjs

\* ------------------------------------- agent driver: concurrent properties

\* The last answer a worker's log holds for call name about (tenant, subnet).
LastAnswer(log, name, tenant_id, subnet_id) ==
  LET at == NsAt(log, name, tenant_id, subnet_id)
  IN  log[CHOOSE i \in at : \A j \in at : j <= i].ret

\* C15: two workers.  A step that adds a SNAT port to a (tenant, subnet) that
\* already has one is the create_port of a worker whose own lookup for that
\* subnet had found none: the second port comes from a lookup that went
\* stale before the create, not from a create that ignores its lookup.
C15_SecondPortFromStaleLookup ==
  [][\A t \in Tenants, s \in Subnets :
       LET before == SnatPortsOf(t, s)
           after == {pt \in ports' : pt.tenant_id = t
                                       /\ pt.name = <<"_lb-snatport-", s>>}
       IN  (before # {} /\ after \ before # {}) =>
             \E w \in Procs :
               /\ npc[w] = "ensure_create"
               /\ npc'[w] # "ensure_create"
               /\ ncur[w].pool.tenant_id = t /\ ncur[w].pool.subnet_id = s
               /\ NsAt(ncalls[w], "get_ports", t, s) # {}
               /\ LastAnswer(ncalls[w], "get_ports", t, s) = {}]_vars

\* C15 witness: both workers run create_pool for one (tenant, subnet), both
\* lookups found no port, both have created one: the subnet has two SNAT
\* ports of one name.
C15_Witness ==
  LET t == ncur["w1"].pool.tenant_id
      s == ncur["w1"].pool.subnet_id
  IN  /\ ncur["w1"].op = "create_pool" /\ ncur["w2"].op = "create_pool"
      /\ ncur["w2"].pool.tenant_id = t /\ ncur["w2"].pool.subnet_id = s
      /\ \A w \in Procs :
           /\ NsAt(ncalls[w], "get_ports", t, s) # {}
           /\ LastAnswer(ncalls[w], "get_ports", t, s) = {}
           /\ NsAt(ncalls[w], "create_port", t, s) # {}
      /\ Cardinality(SnatPortsOf(t, s)) = 2
      /\ \A pt \in SnatPortsOf(t, s) : pt.name = SnatPortName(s)

\* C16: two workers.  A step that deletes a SNAT port of a (tenant, subnet)
\* that a pool references is the delete_port of a worker whose own query had
\* found no pool on the subnet: the port goes because the check went stale
\* before the delete, not because the delete ignores its check.
C16_DeleteAfterStaleCheck ==
  [][\A t \in Tenants, s \in Subnets :
       LET before == SnatPortsOf(t, s)
           after == {pt \in ports' : pt.tenant_id = t
                                       /\ pt.name = <<"_lb-snatport-", s>>}
       IN  (before \ after # {} /\ PoolsOn(t, s) # {}) =>
             \E w \in Procs :
               /\ npc[w] = "release_remove"
               /\ npc'[w] # "release_remove"
               /\ Released(ncur[w]).tenant_id = t
               /\ Released(ncur[w]).subnet_id = s
               /\ NsAt(ncalls[w], "get_pools", t, s) # {}
               /\ LastAnswer(ncalls[w], "get_pools", t, s) = {}]_vars

\* C16 witness: w1's delete_pool of the last pool found no pool on the subnet
\* and has deleted the SNAT port; w2's create_pool on that subnet had found
\* that port, created none, and has cast a create_pool message that names it.
\* The new pool is on the subnet, which has no SNAT port.
C16_Witness ==
  LET d == ncur["w1"]
      c == ncur["w2"]
      t == c.pool.tenant_id
      s == c.pool.subnet_id
  IN  /\ d.op = "delete_pool" /\ c.op = "create_pool"
      /\ d.pool.tenant_id = t /\ d.pool.subnet_id = s
      /\ NsAt(ncalls["w1"], "get_pools", t, s) # {}
      /\ LastAnswer(ncalls["w1"], "get_pools", t, s) = {}
      /\ NsAt(ncalls["w1"], "delete_port", t, s) # {}
      /\ NsAt(ncalls["w2"], "create_port", t, s) = {}
      /\ \E k \in CastAt(ncalls["w2"]) :
           /\ ncalls["w2"][k].ret = "ok"
           /\ ncalls["w2"][k].arg.netinfo.port_id =
                LastAnswer(ncalls["w1"], "delete_port", t, s)
           /\ ncalls["w2"][k].arg.netinfo.port_id \notin
                {pt.id : pt \in ports}
      /\ c.pool \in nsPools
      /\ SnatPortsOf(t, s) = {}

\* ------------------------------------------- agent callbacks: properties

\* C17: unplug_vip_port returns normally whenever it ends, also when get_port
\* or update_port has raised PortNotFound.
C17_UnplugSwallowsPortNotFound ==
  (ncur["w1"].op = "unplug_vip_port" /\ npc["w1"] = "done") =>
    nresult["w1"] = "ok"

\* C17 witness: an unplug_vip_port has read its port, the port was deleted,
\* update_port raised PortNotFound, and the callback has returned.
C17_Witness ==
  /\ ncur["w1"].op = "unplug_vip_port"
  /\ npc["w1"] = "done"
  /\ \E i \in NsCallAt(ncalls["w1"], "update_port") :
       ncalls["w1"][i].ret = "PortNotFound"
  /\ nresult["w1"] = "ok"

\* C18: a plug_vip_port whose port does not exist, at get_port or at
\* update_port, ends with PortNotFound.
C18_PlugPortNotFoundAborts ==
  (/\ ncur["w1"].op = "plug_vip_port"
   /\ npc["w1"] = "done"
   /\ \E i \in 1..Len(ncalls["w1"]) : ncalls["w1"][i].ret = "PortNotFound") =>
    nresult["w1"] = "PortNotFound"

\* C19: plug_vip_port and unplug_vip_port are idempotent and do nothing for an
\* absent port.  A callback without a port_id makes no call; one whose port
\* is gone at get_port makes no update_port call; neither changes a port.  An
\* update_port that finds the port gone changes no port.  An update_port that
\* succeeds leaves the port in a state the same callback with the same host
\* would not change again, and touches no other port.
C19_CallbacksIdempotent ==
  [][LET m == ncur'["w1"]
         log == ncalls'["w1"]
         starts == npc["w1"] = "idle" /\ npc'["w1"] # "idle"
         updates == npc["w1"] = "update_port" /\ npc'["w1"] = "done"
     IN  /\ (starts /\ m.port_id = None) =>
              /\ log = <<>>
              /\ npc'["w1"] = "done"
              /\ ports' = ports
         /\ (starts /\ m.port_id # None /\ ~ PortExists(m.port_id)) =>
              /\ NsCallAt(log, "update_port") = {}
              /\ npc'["w1"] = "done"
              /\ ports' = ports
         /\ starts => ports' = ports
         /\ (updates /\ log[Len(log)].ret # "ok") => ports' = ports
         /\ (updates /\ log[Len(log)].ret = "ok") =>
              /\ \E written \in ports' :
                   /\ written.id = m.port_id
                   /\ CbChange(m.op, written, m.host) = written
              /\ {pt \in ports' : pt.id # m.port_id}
                   = {pt \in ports : pt.id # m.port_id}]_vars

\* C19 witness: a plug_vip_port has read a port that an earlier plug for the
\* same host had already plugged, and has written it again.
C19_Witness ==
  LET m == ncur["w1"]
      log == ncalls["w1"]
  IN  /\ m.op = "plug_vip_port"
      /\ npc["w1"] = "done" /\ nresult["w1"] = "ok"
      /\ Len(log) = 2
      /\ log[1].call = "get_port"
      /\ log[1].ret = CbPort(m.port_id, TRUE, "neutron:LOADBALANCER",
                             DeviceId(m.host))
      /\ log[2].call = "update_port" /\ log[2].ret = "ok"
      /\ log[1].ret \in ports

\* ------------------------------------------- edge driver: get operations

\* C20: a get_vip, get_pool or get_health_monitor for a logical id that has
\* no binding (for get_pool and get_health_monitor: on the edge given) ends
\* with NotFound, and its only call is the binding lookup: no backend get.
C20_GetWithoutBindingNotFound ==
  LET unbound ==
        IF cur.op = "get_vip" THEN GetVipBinding(bindings, cur.obj.id) = {}
        ELSE GetBinding(bindings, KindOf(cur.op), cur.obj.id,
                        cur.edge_id) = {}
  IN  (/\ cur.op \in {"get_vip", "get_pool", "get_health_monitor"}
       /\ pc = "done"
       /\ unbound) =>
        /\ result = "NotFound"
        /\ Len(calls) = 1
        /\ At(calls, {"get_vip", "get_pool", "get_health_monitor"}) = {}

\* C20 witness: a get_pool for an edge on which the pool has no binding has
\* failed, while the pool is bound on the other edge.
C20_Witness ==
  /\ cur.op = "get_pool"
  /\ pc = "done"
  /\ result = "NotFound"
  /\ GetBinding(bindings, "pool", cur.obj.id, cur.edge_id) = {}
  /\ \E r \in bindings : r.kind = "pool" /\ r.id = cur.obj.id

\* ---------------------------------------- edge driver: update operations

UpdateOps == {"update_vip", "update_pool", "update_health_monitor"}

\* C21: update_vip, update_pool and update_health_monitor leave the binding
\* store as it is, whether the backend update succeeds or fails; the backend
\* update they issue is addressed to the backend id of the object's binding
\* on that edge, and update_vip's payload carries the app_profileid of the
\* vip's binding.
C21_UpdateKeepsBindings ==
  [][(pc = "idle" /\ cur'.op \in UpdateOps) =>
       /\ bindings' = bindings
       /\ vse' = vse
       /\ \A i \in At(calls', UpdateOps) :
            \E r \in bindings :
              /\ r.kind = KindOf(cur'.op)
              /\ r.id = cur'.obj.id
              /\ r.edge_id = calls'[i].edge_id
              /\ r.vseid = calls'[i].vseid
              /\ cur'.op = "update_vip" =>
                   calls'[i].body.applicationProfileId = r.app_profileid]_vars

\* C21 witness: an update_vip whose backend update failed has ended, and the
\* vip's binding is in the store.
C21_Witness ==
  /\ cur.op = "update_vip"
  /\ pc = "done"
  /\ FailedAt(calls, {"update_vip"}) # {}
  /\ GetVipBinding(bindings, cur.obj.id) # {}

\* ------------------------------------------ edge driver: error propagation

\* The calls of the vcns backend.
BackendCalls ==
  BackendCreates \cup BackendDeletes \cup UpdateOps
    \cup {"get_vip", "get_pool", "get_health_monitor"}

\* C22: no method retries.  In the calls of a method every backend call stands
\* at most once; a failed backend call is the last call of the method (no
\* backend call and no binding write follows it), the method has ended, and
\* its error is the error of that call.
C22_NoRetrySameError ==
  cur.op # "none" =>
    /\ \A i, j \in At(calls, BackendCalls) :
         calls[i].call = calls[j].call => i = j
    /\ FailedAt(calls, BackendCalls) # {} =>
         /\ FailedAt(calls, BackendCalls) = {Len(calls)}
         /\ pc = "done"
         /\ result = calls[Len(calls)].out
         /\ result \in VcnsErrors

\* C22 witness: a delete_vip has ended with the error of its second backend
\* call, delete_app_profile, after its delete_vip call succeeded.
C22_Witness ==
  /\ cur.op = "delete_vip"
  /\ pc = "done"
  /\ OkAt(calls, {"delete_vip"}) # {}
  /\ FailedAt(calls, {"delete_app_profile"}) # {}
  /\ result = "BackendUnavailable"

\* C25: the payload of create_vip's backend create_vip call names the
\* backend pool bound to vip.pool_id on that edge and the application profile
\* whose id was taken from the create_app_profile response of the same
\* create_vip; the vip binding written afterwards holds that profile id and
\* the backend id of the vip.
C25_CreateVipPayload ==
  cur.op = "create_vip" =>
    \A i \in At(calls, {"create_vip"}) :
      /\ \E r \in GetBinding(bindings, "pool", cur.obj.pool_id, cur.edge_id) :
           calls[i].body.defaultPoolId = r.vseid
      /\ calls[1].call = "create_app_profile"
      /\ calls[1].out = "ok"
      /\ calls[i].body.applicationProfileId = calls[1].vseid
      /\ [edge_id |-> cur.edge_id, kind |-> "app_profile",
          vseid |-> calls[i].body.applicationProfileId] \in vse
      /\ At(calls, {"add_vcns_edge_vip_binding"}) # {} =>
           \E b \in GetVipBinding(bindings, cur.obj.id) :
             /\ b.edge_id = cur.edge_id
             /\ b.app_profileid = calls[i].body.applicationProfileId
             /\ b.vseid = calls[i].vseid
             /\ [edge_id |-> cur.edge_id, kind |-> "vip",
                 vseid |-> b.vseid] \in vse

\* create_vip has written its binding.
C25_Witness ==
  /\ cur.op = "create_vip"
  /\ pc = "done"
  /\ result = "ok"
  /\ OkAt(calls, {"create_vip"}) # {}
  /\ At(calls, {"add_vcns_edge_vip_binding"}) # {}

\* The steps that write a binding, and the steps between a backend delete
\* and the removal of the binding.
BindSteps ==
  {"create_vip_bind", "create_pool_bind", "create_health_monitor_bind"}
UnbindSteps ==
  {"delete_vip_profile", "delete_vip_unbind", "delete_pool_unbind",
   "delete_health_monitor_unbind"}

\* The kind of object the method at step works on.
StepKind(step) ==
  CASE step \in {"create_vip_bind", "delete_vip_profile", "delete_vip_unbind"}
         -> "vip"
    [] step \in {"create_pool_bind", "delete_pool_unbind"} -> "pool"
    [] OTHER -> "monitor"

\* No row of rows names the backend object o of objs, as an object or as the
\* profile of a vip.
OrphanIn(o, objs, rows) ==
  /\ o \in objs
  /\ ~\E r \in rows :
        /\ r.edge_id = o.edge_id
        /\ \/ r.kind = o.kind /\ r.vseid = o.vseid
           \/ r.kind = "vip" /\ o.kind = "app_profile"
                /\ r.app_profileid = o.vseid

Orphan(o) == OrphanIn(o, vse, bindings)

\* The binding r names a backend object that is not on the edge.
Stale(r) ==
  /\ r \in bindings
  /\ [edge_id |-> r.edge_id, kind |-> r.kind, vseid |-> r.vseid] \notin vse

\* The running method has made a backend call for the object with this id
\* and has not ended yet.
InFlight(vseid) ==
  /\ pc \notin {"idle", "done"}
  /\ vseid \in {cur.vseid, cur.app_profileid}

\* The process dies at one of these steps.
CrashAt(steps) == pc \in steps /\ pc' = "idle"

\* The step overwrites the row of r with the binding of an object created
\* for the same logical id on the same edge.
Overwritten(r) ==
  /\ pc \in BindSteps
  /\ pc' = "done"
  /\ StepKind(pc) = r.kind
  /\ cur.obj.id = r.id
  /\ r.kind = "vip" \/ cur.edge_id = r.edge_id
  /\ r \notin bindings'

\* A crash between a backend create and the binding write leaves the object
\* an orphan, a crash between a backend delete and the binding removal
\* leaves the binding stale.
CrashLeavesOrphanOrStale ==
  /\ CrashAt(BindSteps) =>
       OrphanIn([edge_id |-> cur.edge_id, kind |-> StepKind(pc),
                 vseid |-> cur.vseid], vse', bindings')
  /\ CrashAt(UnbindSteps) =>
       \E r \in bindings :
         /\ r.kind = StepKind(pc)
         /\ r.id = cur.obj.id
         /\ r.vseid = cur.vseid
         /\ Stale(r)'

\* An orphan no method is working on stays an orphan.
OrphanStays ==
  \A o \in vse :
    (Orphan(o) /\ ~InFlight(o.vseid)) =>
      (Orphan(o) /\ ~InFlight(o.vseid))'

WrongAnswer ==
  /\ Len(calls') > Len(calls)
  /\ LET c == calls'[Len(calls')]
     IN  /\ c.call \in BackendDeletes
         /\ c.out \in VcnsErrors
         /\ \E o \in vse : o.edge_id = c.edge_id /\ o.vseid = c.vseid

\* delete_vip(id) has raised the error of a backend call.
DeleteVipFailed(id) ==
  /\ pc = "done"
  /\ cur.op = "delete_vip"
  /\ cur.obj.id = id
  /\ result \in VcnsErrors

\* C31: when the backend, from some point on, answers every delete of an
\* object it holds with success, each failed delete_vip is followed, as the
\* caller keeps calling delete_vip, by a state in which the vip has no
\* binding.
C31_RetryConverges ==
  <>[][~WrongAnswer]_pc =>
    \A id \in VipIds :
      [](DeleteVipFailed(id) => <>(GetVipBinding(bindings, id) = {}))

\* The places of a log where a lookup of a pool binding found no row.
PoolLookupMissed(log) ==
  {i \in At(log, {"get_vcns_edge_pool_binding"}) : log[i].out = "None"}

\* C32: create_vip looks the pool's binding up only after its app profile
\* call has succeeded; when the lookup finds no binding of vip.pool_id on
\* the edge, the method has ended with an error, the one app profile it
\* created is on the edge, and it has issued no vip create call and written
\* no vip binding: no binding names the profile.
C32_UnboundPoolLeavesProfile ==
  cur.op = "create_vip" =>
    /\ \A i \in At(calls, {"get_vcns_edge_pool_binding"}) :
         \E j \in OkAt(calls, {"create_app_profile"}) : j < i
    /\ PoolLookupMissed(calls) # {} =>
         /\ pc = "done"
         /\ result \notin {"ok", "none"}
         /\ Cardinality(At(calls, BackendCreates)) = 1
         /\ [edge_id |-> cur.edge_id, kind |-> "app_profile",
             vseid |-> cur.app_profileid] \in vse
         /\ At(calls, {"create_vip"}) = {}
         /\ At(calls, AddBindingCalls) = {}
         /\ GetBinding(bindings, "pool", cur.obj.pool_id, cur.edge_id) = {}
         /\ \A r \in bindings :
              ~(r.edge_id = cur.edge_id
                /\ r.app_profileid = cur.app_profileid)

\* C32 witness: create_vip has ended on a missed pool lookup, its profile
\* created.
C32_Witness ==
  /\ pc = "done"
  /\ cur.op = "create_vip"
  /\ PoolLookupMissed(calls) # {}
  /\ OkAt(calls, {"create_app_profile"}) # {}
  /\ cur.app_profileid # NoId

\* C33: delete_vip issues the backend vip delete before the app profile
\* delete, the profile delete only after the vip delete succeeded, and the
\* binding's removal only after both; the method stops at the first failed
\* call. A step in which the vip delete fails is the method's only step: it
\* ends the method with that error, no profile delete and no binding
\* removal issued, and the backend objects and the bindings are as they
\* were before the operation.
C33_DeleteVipStopsAtFirstFailure ==
  [][cur'.op = "delete_vip" =>
       /\ \A i \in At(calls', {"delete_app_profile"}) :
            \E j \in OkAt(calls', {"delete_vip"}) : j < i
       /\ \A i \in At(calls', DeleteBindingCalls) :
            \E j \in OkAt(calls', {"delete_app_profile"}) : j < i
       /\ FailedAt(calls', BackendDeletes) # {} =>
            /\ FailedAt(calls', BackendDeletes) = {Len(calls')}
            /\ pc' = "done"
            /\ result' \in VcnsErrors
       /\ FailedAt(calls', {"delete_vip"}) # {} =>
            /\ pc = "idle"
            /\ At(calls', {"delete_app_profile"}) = {}
            /\ At(calls', DeleteBindingCalls) = {}
            /\ vse' = vse
            /\ bindings' = bindings
            /\ \E r \in GetVipBinding(bindings', cur'.obj.id) :
                 /\ r.edge_id = cur'.edge_id
                 /\ r.vseid = cur'.vseid
                 /\ r.app_profileid = cur'.app_profileid]_vars

\* C33 witness: delete_vip has ended on its failed vip delete call; the
\* backend vip and the app profile are on the edge and the binding is there.
C33_Witness ==
  /\ pc = "done"
  /\ cur.op = "delete_vip"
  /\ FailedAt(calls, {"delete_vip"}) # {}
  /\ result \in VcnsErrors
  /\ [edge_id |-> cur.edge_id, kind |-> "vip", vseid |-> cur.vseid] \in vse
  /\ [edge_id |-> cur.edge_id, kind |-> "app_profile",
      vseid |-> cur.app_profileid] \in vse
  /\ GetVipBinding(bindings, cur.obj.id) # {}

\* A pool that an agent hosts: create_pool has scheduled it.  A pool whose
\* create_pool or update_pool has returned is one of these.
HostedPool(q) == \E a \in poolAgents : a.pool_id = q.id

\* The pool's own create_pool or update_pool is at its ensure step: the
\* service has stored the pool's subnet, the method has not yet looked the
\* subnet's SNAT port up or created it.
Ensuring(q) ==
  /\ npc["w1"] \in {"ensure", "ensure_create"}
  /\ ncur["w1"].pool.id = q.id

\* C34: methods called one after the other.  A step that deletes a SNAT
\* port of a (tenant, subnet) finds no pool recorded on it; every delete_port
\* in a method's log comes after a get_pools query of that method for the
\* same (tenant, subnet) that answered empty; and the subnet of a hosted
\* pool has a SNAT port at every moment but the ensure step of the pool's
\* own create_pool or move, so in particular whenever the pool's
\* create_pool or update_pool has returned.
C34_PortKeptWhilePoolRecorded ==
  /\ [](LET m == ncur["w1"]
            log == ncalls["w1"]
        IN  /\ \A i \in NsCallAt(log, "delete_port") :
                 \E j \in NsCallAt(log, "get_pools") :
                   j < i /\ log[j].arg = log[i].arg /\ log[j].ret = {}
            /\ \A q \in nsPools :
                 (HostedPool(q) /\ ~Ensuring(q)) =>
                   SnatPortsOf(q.tenant_id, q.subnet_id) # {}
            /\ (/\ npc["w1"] = "done" /\ nresult["w1"] = "ok"
                /\ m.op \in {"create_pool", "update_pool"}) =>
                 /\ m.pool \in nsPools
                 /\ SnatPortsOf(m.pool.tenant_id, m.pool.subnet_id) # {})
  /\ [][\A t \in Tenants, s \in Subnets :
          (\E pt \in SnatPortsOf(t, s) : pt \notin ports') =>
            /\ PoolsOn(t, s) = {}
            /\ nsPools' = nsPools
            /\ npc["w1"] = "release_remove"]_vars

\* C34 witness: an update_pool that moved a pool to a subnet another pool is
\* on has returned; it found no pool left on the old subnet and deleted that
\* subnet's port, and the new subnet, now with two pools, has its port.
C34_Witness ==
  LET m == ncur["w1"]
      log == ncalls["w1"]
      t == m.pool.tenant_id
  IN  /\ MovingPool
      /\ npc["w1"] = "done" /\ nresult["w1"] = "ok"
      /\ NsAt(log, "delete_port", t, m.old_pool.subnet_id) # {}
      /\ PoolsOn(t, m.old_pool.subnet_id) = {}
      /\ SnatPortsOf(t, m.old_pool.subnet_id) = {}
      /\ Cardinality(PoolsOn(t, m.pool.subnet_id)) = 2
      /\ SnatPortsOf(t, m.pool.subnet_id) # {}

\* ------------------------------------------------- translator: properties

\* The logged applications of the translator function called name.
ConvAt(name) == {i \in 1..Len(calls) : calls[i].call = name}

\* The restore of a converted vip has returned a vip.
Restored ==
  /\ Len(calls) = 2
  /\ calls[2].call = "_restore_lb_vip"
  /\ calls[2].out = "ok"

\* The row the reverse lookup gave is the row the forward lookup gave.
LookupsAgree == calls[2].lookups = calls[1].lookups

\* C23: restoring a converted vip gives back the vip's name, address,
\* protocol and protocol_port, and gives back its pool_id whenever the lookup
\* by backend pool id returns the binding the lookup by logical pool id
\* returned.
C23_VipRoundTrip ==
  Restored =>
    LET v == calls[1].arg
        r == calls[2].ret
    IN  /\ r.name = v.name
        /\ r.address = v.address
        /\ r.protocol = v.protocol
        /\ r.protocol_port = v.protocol_port
        /\ LookupsAgree => r.pool_id = v.pool_id

\* A vip on HTTPS and port 443 was converted and restored over a table in
\* which two pools share the backend id, and the lookups agreed.
C23_Witness ==
  /\ Restored
  /\ LookupsAgree
  /\ calls[1].arg.protocol = "HTTPS"
  /\ calls[1].arg.protocol_port = 443
  /\ calls[2].ret.pool_id = "pool-2"
  /\ Cardinality(GetBindingByVseid(bindings, "pool", cur.edge_id,
                                    calls[1].ret.defaultPoolId)) = 2

\* The lb_methods and monitor types the tables have.
LbMethods == {"ROUND_ROBIN", "LEAST_CONNECTIONS", "SOURCE_IP"}
MonitorTypes == {"TCP", "HTTP", "HTTPS"}

\* C26: a converted pool has the algorithm BALANCE_MAP gives for its
\* lb_method (round-robin, leastconn, source) and round-robin for an
\* lb_method the table does not have or a pool without one, and the
\* conversion of a pool without monitors raises nothing.
C26_PoolAlgorithm ==
  \A i \in ConvAt("_convert_lb_pool") :
    LET pool == calls[i].arg
        lb_method == IF "lb_method" \in DOMAIN pool THEN pool.lb_method
                     ELSE None
    IN  /\ DictGet(pool, "health_monitors", <<>>) = <<>> =>
             calls[i].out = "ok"
        /\ calls[i].out = "ok" =>
             /\ lb_method \in LbMethods =>
                  calls[i].ret.algorithm = BALANCE_MAP[lb_method]
             /\ lb_method = "ROUND_ROBIN" =>
                  calls[i].ret.algorithm = "round-robin"
             /\ lb_method = "LEAST_CONNECTIONS" =>
                  calls[i].ret.algorithm = "leastconn"
             /\ lb_method = "SOURCE_IP" => calls[i].ret.algorithm = "source"
             /\ lb_method \notin LbMethods =>
                  calls[i].ret.algorithm = "round-robin"

\* A pool with an lb_method the table does not have was converted.
C26_Witness ==
  /\ ConvAt("_convert_lb_pool") = {1}
  /\ calls[1].out = "ok"
  /\ "lb_method" \in DOMAIN calls[1].arg
  /\ calls[1].arg.lb_method = "WEIGHTED"
  /\ calls[1].ret.algorithm = "round-robin"

\* C27: a converted monitor has the type PROTOCOL_MAP gives for its type
\* (tcp, http, and tcp for HTTPS) and http for a type the table does not have
\* or a monitor without one; its interval is the monitor's delay and its name
\* the monitor's id.
C27_MonitorType ==
  \A i \in ConvAt("_convert_lb_monitor") :
    LET monitor == calls[i].arg
        type == IF "type" \in DOMAIN monitor THEN monitor.type ELSE None
    IN  /\ calls[i].out = "ok"
        /\ type \in MonitorTypes => calls[i].ret.type = PROTOCOL_MAP[type]
        /\ type = "TCP" => calls[i].ret.type = "tcp"
        /\ type = "HTTP" => calls[i].ret.type = "http"
        /\ type = "HTTPS" => calls[i].ret.type = "tcp"
        /\ type \notin MonitorTypes => calls[i].ret.type = "http"
        /\ calls[i].ret.interval = monitor.delay
        /\ calls[i].ret.name = monitor.id

\* A monitor without a type and with a delay of 7 was converted.
C27_Witness ==
  /\ ConvAt("_convert_lb_monitor") = {1}
  /\ "type" \notin DOMAIN calls[1].arg
  /\ calls[1].arg.delay = 7
  /\ calls[1].ret.type = "http"
  /\ calls[1].ret.interval = 7

\* C28: a converted pool carries at most one monitor: for a pool with
\* health monitors one binding lookup is made and monitorId is the backend id
\* bound to the first of them; for a pool with an empty list or none no
\* lookup is made and monitorId is empty.
C28_FirstMonitorOnly ==
  \A i \in ConvAt("_convert_lb_pool") :
    LET monitors == DictGet(calls[i].arg, "health_monitors", <<>>)
    IN  /\ monitors = <<>> =>
             /\ calls[i].lookups = <<>>
             /\ calls[i].out = "ok"
             /\ calls[i].ret.monitorId = <<>>
        /\ monitors # <<>> =>
             /\ Len(calls[i].lookups) = 1
             /\ calls[i].out = "ok" =>
                  \E r \in bindings :
                    /\ r.kind = "monitor"
                    /\ r.id = monitors[1]
                    /\ r.edge_id = calls[i].edge_id
                    /\ calls[i].ret.monitorId = <<r.vseid>>

\* A pool with two monitors, both bound on the edge, was converted.
C28_Witness ==
  /\ ConvAt("_convert_lb_pool") = {1}
  /\ calls[1].out = "ok"
  /\ DictGet(calls[1].arg, "health_monitors", <<>>) = <<"hm-2", "hm-1">>
  /\ \A m \in ConvMonitorIds :
       GetBinding(bindings, "monitor", m, calls[1].edge_id) # {}
  /\ calls[1].ret.monitorId = <<VseIdStr(3)>>

\* C29: the id taken from a location is what follows its last '/': it holds
\* no '/', the location ends with it, a '/' stands right before it unless the
\* location has none, in which case it is the whole location; from a location
\* ending in /abc123 it is abc123.
C29_IdAfterLastSlash ==
  \A i \in ConvAt("objuri_id") :
    LET objuri == calls[i].arg
        id == calls[i].ret
        n == Len(objuri) - Len(id)
    IN  /\ \A k \in 1..Len(id) : id[k] # "/"
        /\ n >= 0
        /\ \A k \in 1..Len(id) : id[k] = objuri[n + k]
        /\ IF \E k \in 1..Len(objuri) : objuri[k] = "/"
             THEN n >= 1 /\ objuri[n] = "/"
             ELSE id = objuri
        /\ (Len(objuri) >= 7 /\
            SubSeq(objuri, Len(objuri) - 6, Len(objuri))
              = <<"/", "a", "b", "c", "1", "2", "3">>) =>
             id = <<"a", "b", "c", "1", "2", "3">>

\* The id was taken from the location /api/abc123.
C29_Witness ==
  /\ ConvAt("objuri_id") = {1}
  /\ calls[1].arg = <<"/", "a", "p", "i", "/", "a", "b", "c", "1", "2", "3">>
  /\ calls[1].ret = <<"a", "b", "c", "1", "2", "3">>

\* ------------------------------------------------ REST client: properties

\* A REST operation of a client that is no proxy has ended on a response
\* with a status.  A proxy client hands every response to its caller.
RestAnswered ==
  /\ rpc = "done"
  /\ ~is_proxy
  /\ "status" \in DOMAIN rcur.response

\* C24: in each of create_resource, retrieve_resource, update_resource and
\* remove_resource of a client that is no proxy, a status below 400 returns
\* to the caller, 401 is raised and logged as a failed login, and every other
\* status of 400 or above is raised and logged as a failed operation; none of
\* them is returned.
C24_StatusHandling ==
  RestAnswered =>
    LET status == rcur.response.status
    IN  /\ status < 400 => rresult.out = "return"
        /\ status = 401 =>
             /\ rresult.out = "ServiceUnavailable"
             /\ rresult.log = "Unable to login"
        /\ (status >= 400 /\ status # 401) =>
             /\ rresult.out = "ServiceUnavailable"
             /\ rresult.log \in {"Failed to create", "Failed to update",
                                 "Failed to remove", "Failed to retrieve"}

====
